---- MODULE Spec2Model ----
(***************************************************************************)
(* AURA Music: the reactive store (store.js) and the audio engine          *)
(* (player.js).                                                            *)
(*                                                                         *)
(* Units.  Time is counted in twentieths of a second (0.05 s), volume in   *)
(* quarters (0 .. 4 stands for 0.0 .. 1.0).  A track is its id 1..NTracks; *)
(* 0 stands for null / the empty src.                                      *)
(*                                                                         *)
(* A JavaScript value a selector can project is a record [k, v]: k is the  *)
(* kind ("number", "string", "null", "set", "array"), v the content.       *)
(* Objects carry no reference: the store never mutates an object in place, *)
(* so two values with the same reference have the same content.            *)
(***************************************************************************)
EXTENDS Integers, Sequences, FiniteSets, TLC

VARIABLES
    st,          \* Store.#state
    storage,     \* localStorage, as written through storageSet
    subs,        \* Store.#selectorListeners : Map selector -> Set of entries
    listeners,   \* Store.#listeners
    nextId,      \* number of subscriptions made so far
    last,        \* observation of the most recent dispatch
    el,          \* the two HTMLAudioElements
    primary,     \* AudioPlayer.#primary (1 or 2); #secondary is the other
    retryCount,  \* AudioPlayer.#retryCount
    timer,       \* number of live progress intervals
    bound,       \* element the #boundHandlers were attached to (0: none)
    attached,    \* attached[e]: engine handler sets listening on element e
    preloaded,   \* AudioPlayer.#preloadedUrl (track id, 0: null)
    loads,       \* load cycles whose listeners are still on an element
    waits,       \* continuations suspended on a promise, a frame or a timer
    played,      \* logPlayEvent calls made by the handler that ran last
    log,         \* what the handler that ran last went through: "loaded" for
                 \* a load that ended with play() started, "blocked" for one
                 \* that ended with play() refused, "failed" for the catch
                 \* block of play(), "tick" for a progress update of the
                 \* interval of #startProgressTimer, "preload" for a new
                 \* Audio made by preloadNext
    autoNext,    \* next() calls made by the catch block of play() since the
                 \* last load that ended with play() started
    halted,      \* pause() has run and neither play() nor resume() has started
                 \* playback since
    ops,         \* user operations issued so far
    ends,        \* resources played to their end so far
    call         \* the method of the engine the latest step called ("": none)

vars == <<st, storage, subs, listeners, nextId, last, el, primary, retryCount,
          timer, bound, attached, preloaded, loads, waits, played, log, autoNext,
          halted, ops, ends, call>>

----------------------------------------------------------------------------
(* Bounds of the model *)

NTracks == 3
MaxQueue == 3
MaxSubs == 2
MaxOps == 2

(* Program constants, in model units *)

\* store.js: |new - old| < 0.1 s
PROGRESS_EPS == 2
\* player.js prev(): currentTime > 3 s
PREV_RESTART_AFTER == 60
PROGRESS_TIMER_PERIOD == 5
\* constants.js AUDIO.MAX_RETRIES
MAX_RETRIES == 3
\* constants.js AUDIO.PRELOAD_NEXT_AT_PERCENT, in hundredths
PRELOAD_NEXT_AT_PERCENT == 85
\* Math.min(1, ...) of SET_VOLUME and clamp(volume, 0, 1), in quarters
VOL_ONE == 4

Tracks == 1 .. NTracks
NoTrack == 0
PLAYER_STATES == {"idle", "loading", "playing", "paused", "buffering", "ended", "error"}
REPEAT_MODES == {"none", "all", "one"}

----------------------------------------------------------------------------
(* JavaScript values *)

Num(n) == [k |-> "number", v |-> <<n>>]
Str(s) == [k |-> "string", v |-> <<s>>]
Null == [k |-> "null", v |-> <<>>]
SetV(S) == [k |-> "set", v |-> S]
Arr(q) == [k |-> "array", v |-> q]

TypeOf(a) == IF a.k \in {"number", "string", "boolean"} THEN a.k ELSE "object"

\* a === b.  Primitives by value; objects by reference, which the model keeps
\* as: same kind and same content.
StrictEq(a, b) == a.k = b.k /\ a.v = b.v

\* Object.keys(a): a Set has no own enumerable keys
Keys(a) == IF a.k = "array" THEN DOMAIN a.v ELSE {}

\* shallowEqual without its Set case
ShallowEqualNoSetCase(a, b) ==
    IF StrictEq(a, b) THEN TRUE
    ELSE IF TypeOf(a) # TypeOf(b) THEN FALSE
    ELSE IF TypeOf(a) # "object" \/ a.k = "null" \/ b.k = "null" THEN FALSE
    ELSE IF Cardinality(Keys(a)) # Cardinality(Keys(b)) THEN FALSE
    ELSE \A key \in Keys(a) : key \in Keys(b) /\ a.v[key] = b.v[key]

ShallowEqual(a, b) ==
    IF StrictEq(a, b) THEN TRUE
    ELSE IF TypeOf(a) # TypeOf(b) THEN FALSE
    ELSE IF a.k = "set" /\ b.k = "set"
         THEN IF Cardinality(a.v) # Cardinality(b.v) THEN FALSE
              ELSE \A item \in a.v : item \in b.v
    ELSE IF TypeOf(a) # "object" \/ a.k = "null" \/ b.k = "null" THEN FALSE
    ELSE IF Cardinality(Keys(a)) # Cardinality(Keys(b)) THEN FALSE
    ELSE \A key \in Keys(a) : key \in Keys(b) /\ a.v[key] = b.v[key]

----------------------------------------------------------------------------
(* Helpers of utils.js and store.js *)

Min(a, b) == IF a < b THEN a ELSE b
Max(a, b) == IF a > b THEN a ELSE b
Abs(x) == IF x < 0 THEN -x ELSE x
clamp(value, lo, hi) == Min(Max(value, lo), hi)

\* The draws of Math.random() one shuffleArray call consumes: rnd[i] stands
\* for Math.floor(Math.random() * (i + 1)), a number in 0 .. i, for the array
\* index i (0-based) of the loop.  Draws the loop does not reach are 0.
QueueCap == MaxQueue + 1
Draws(n) == { r \in [1 .. QueueCap - 1 -> 0 .. QueueCap - 1] :
                \A i \in 1 .. QueueCap - 1 : IF i < n THEN r[i] <= i ELSE r[i] = 0 }
NoDraws == [i \in 1 .. QueueCap - 1 |-> 0]

Swap(arr, x, y) == [arr EXCEPT ![x] = arr[y], ![y] = arr[x]]

\* the loop of shuffleArray from 0-based index i down to 1
RECURSIVE FisherYates(_, _, _)
FisherYates(arr, i, rnd) ==
    IF i > 0 THEN FisherYates(Swap(arr, i + 1, rnd[i] + 1), i - 1, rnd) ELSE arr

shuffleArray(array, rnd) == FisherYates(array, Len(array) - 1, rnd)

Front(q, n) == SubSeq(q, 1, Min(n, Len(q)))

activeQueue(s) == IF s.shuffle /\ Len(s.shuffledQueue) # 0 THEN s.shuffledQueue ELSE s.queue

SELECTORS == {"volume", "progress", "playerState", "queueIndex", "queue", "likedTrackIds"}

Sel(name, s) ==
    CASE name = "volume" -> Num(s.volume)
      [] name = "progress" -> Num(s.progress)
      [] name = "playerState" -> Str(s.playerState)
      [] name = "queueIndex" -> Num(s.queueIndex)
      [] name = "queue" -> Arr(s.queue)
      [] name = "likedTrackIds" -> SetV(s.likedTrackIds)

----------------------------------------------------------------------------
(* Store.#reduce.  The result is [same, threw, st, storage]: same is TRUE   *)
(* when the reducer returns the state reference it was given, threw when    *)
(* the reducer throws; storage is localStorage after the storageSet calls   *)
(* of the case.  rnd are the Math.random() draws.                           *)

Kept(s, stor) == [same |-> TRUE, threw |-> FALSE, st |-> s, storage |-> stor]
New(s, stor) == [same |-> FALSE, threw |-> FALSE, st |-> s, storage |-> stor]
Threw(s, stor) == [same |-> TRUE, threw |-> TRUE, st |-> s, storage |-> stor]

ReduceSetCurrentTrack(s, stor, track) ==
    IF track = s.currentTrack THEN Kept(s, stor)
    ELSE LET recentTracks == Front(<<track>> \o SelectSeq(s.recentTracks, LAMBDA t : t # track), 50)
         IN  \* t.id of a null entry throws (in filter or in map)
             IF \E i \in 1 .. Len(s.recentTracks) : s.recentTracks[i] = NoTrack
                THEN Threw(s, stor)
             ELSE IF \E i \in 1 .. Min(20, Len(recentTracks)) : recentTracks[i] = NoTrack
                THEN Threw(s, stor)
             ELSE New([s EXCEPT !.currentTrack = track, !.recentTracks = recentTracks],
                      [stor EXCEPT !.recent = Front(recentTracks, 20)])

ReduceSetPlayerState(s, stor, payload) ==
    IF s.playerState = payload THEN Kept(s, stor)
    ELSE New([s EXCEPT !.playerState = payload], stor)

\* SET_PROGRESS that stores every value it is given
ReduceSetProgressAlways(s, stor, payload) == New([s EXCEPT !.progress = payload], stor)

ReduceSetProgress(s, stor, payload) ==
    IF Abs(s.progress - payload) < PROGRESS_EPS THEN Kept(s, stor)
    ELSE New([s EXCEPT !.progress = payload], stor)

ReduceSetDuration(s, stor, payload) ==
    IF s.duration = payload THEN Kept(s, stor)
    ELSE New([s EXCEPT !.duration = payload], stor)

\* SET_VOLUME that persists the payload as it was given
ReduceSetVolumePersistsPayload(s, stor, payload) ==
    LET volume == Min(VOL_ONE, Max(0, payload))
    IN  New([s EXCEPT !.volume = volume], [stor EXCEPT !.volume = payload])

ReduceSetVolume(s, stor, payload) ==
    LET volume == Min(VOL_ONE, Max(0, payload))
    IN  New([s EXCEPT !.volume = volume], [stor EXCEPT !.volume = volume])

\* SET_QUEUE that keeps the shuffled ordering of the queue it replaces
ReduceSetQueueKeepsShuffled(s, stor, payload, rnd) ==
    New([s EXCEPT !.queue = payload.queue, !.queueIndex = payload.index], stor)

ReduceSetQueue(s, stor, payload, rnd) ==
    LET shuffledQueue == IF s.shuffle THEN shuffleArray(payload.queue, rnd) ELSE <<>>
    IN  New([s EXCEPT !.queue = payload.queue, !.queueIndex = payload.index,
                      !.shuffledQueue = shuffledQueue], stor)

ReduceSetQueueIndex(s, stor, payload) == New([s EXCEPT !.queueIndex = payload], stor)

ReduceSetRepeatMode(s, stor, payload) ==
    New([s EXCEPT !.repeatMode = payload], [stor EXCEPT !.repeat = payload])

\* a toggle that shuffles the queue itself
ReduceToggleShuffleInPlace(s, stor, rnd) ==
    LET shuffle == ~s.shuffle
        shuffledQueue == IF shuffle THEN shuffleArray(s.queue, rnd) ELSE <<>>
    IN  New([s EXCEPT !.shuffle = shuffle, !.shuffledQueue = shuffledQueue,
                      !.queue = IF shuffle THEN shuffledQueue ELSE @],
            [stor EXCEPT !.shuffle = shuffle])

ReduceToggleShuffle(s, stor, rnd) ==
    LET shuffle == ~s.shuffle
        shuffledQueue == IF shuffle THEN shuffleArray(s.queue, rnd) ELSE <<>>
    IN  New([s EXCEPT !.shuffle = shuffle, !.shuffledQueue = shuffledQueue],
            [stor EXCEPT !.shuffle = shuffle])

ReduceSetCrossfading(s, stor, payload) == New([s EXCEPT !.isCrossfading = payload], stor)

ReduceSetError(s, stor, payload) == New([s EXCEPT !.error = payload], stor)

ReduceToggleLiked(s, stor, payload) ==
    LET trackId == payload.trackId
        track == payload.track
        has == trackId \in s.likedTrackIds
        likedTrackIds == IF has THEN s.likedTrackIds \ {trackId}
                         ELSE s.likedTrackIds \cup {trackId}
        inLibrary == \E i \in 1 .. Len(s.library) : s.library[i] = trackId
        library == IF has THEN SelectSeq(s.library, LAMBDA t : t # trackId)
                   ELSE IF track # NoTrack /\ ~inLibrary THEN <<track>> \o s.library
                   ELSE s.library
        \* [...likedTrackIds]: the ids as an array, here in ascending order
        ids == CHOOSE q \in [1 .. Cardinality(likedTrackIds) -> likedTrackIds] :
                   \A i, j \in DOMAIN q : i < j => q[i] < q[j]
    IN  New([s EXCEPT !.likedTrackIds = likedTrackIds, !.library = library],
            [stor EXCEPT !.liked = ids, !.library = Front(library, 500)])

ReduceAddToLibrary(s, stor, track) ==
    IF \E i \in 1 .. Len(s.library) : s.library[i] = track THEN Kept(s, stor)
    ELSE LET library == Front(<<track>> \o s.library, 500)
         IN  New([s EXCEPT !.library = library], [stor EXCEPT !.library = library])

Reduce(s, stor, action, rnd) ==
    CASE action.type = "SET_CURRENT_TRACK" -> ReduceSetCurrentTrack(s, stor, action.payload)
      [] action.type = "SET_PLAYER_STATE" -> ReduceSetPlayerState(s, stor, action.payload)
      [] action.type = "SET_PROGRESS" -> ReduceSetProgress(s, stor, action.payload)
      [] action.type = "SET_DURATION" -> ReduceSetDuration(s, stor, action.payload)
      [] action.type = "SET_VOLUME" -> ReduceSetVolume(s, stor, action.payload)
      [] action.type = "SET_QUEUE" -> ReduceSetQueue(s, stor, action.payload, rnd)
      [] action.type = "SET_QUEUE_INDEX" -> ReduceSetQueueIndex(s, stor, action.payload)
      [] action.type = "SET_REPEAT_MODE" -> ReduceSetRepeatMode(s, stor, action.payload)
      [] action.type = "TOGGLE_SHUFFLE" -> ReduceToggleShuffle(s, stor, rnd)
      [] action.type = "SET_CROSSFADING" -> ReduceSetCrossfading(s, stor, action.payload)
      [] action.type = "SET_ERROR" -> ReduceSetError(s, stor, action.payload)
      [] action.type = "TOGGLE_LIKED" -> ReduceToggleLiked(s, stor, action.payload)
      [] action.type = "ADD_TO_LIBRARY" -> ReduceAddToLibrary(s, stor, action.payload)
      [] OTHER -> Kept(s, stor)

Act(type, payload) == [type |-> type, payload |-> payload]

----------------------------------------------------------------------------
(* The world an operation runs in: a record of all the mutable state of    *)
(* the store and the engine.  Operations are functions from world to world *)
(* so that one handler, with every dispatch it makes and every subscriber  *)
(* those dispatches call, is one step.                                     *)

World == [st |-> st, storage |-> storage, subs |-> subs, listeners |-> listeners,
          last |-> last, el |-> el, primary |-> primary, retryCount |-> retryCount,
          timer |-> timer, bound |-> bound, attached |-> attached,
          preloaded |-> preloaded, loads |-> loads, waits |-> waits, played |-> <<>>,
          log |-> <<>>, halted |-> halted]

\* a call of a method of the store or the engine, or the delivery of an
\* element's event, with its arguments a
RECURSIVE Invoke(_, _, _)

Commit(W) ==
    /\ st' = W.st
    /\ storage' = W.storage
    /\ subs' = W.subs
    /\ listeners' = W.listeners
    /\ last' = W.last
    /\ el' = W.el
    /\ primary' = W.primary
    /\ retryCount' = W.retryCount
    /\ timer' = W.timer
    /\ bound' = W.bound
    /\ attached' = W.attached
    /\ preloaded' = W.preloaded
    /\ loads' = W.loads
    /\ waits' = W.waits
    /\ played' = W.played
    /\ log' = W.log
    /\ halted' = W.halted

\* last when the most recent call of the store was no dispatch
NoDispatch == [type |-> "", action |-> <<>>, rnd |-> <<>>, same |-> TRUE,
               returned |-> "normal", firedSel |-> <<>>, firedGen |-> <<>>, errors |-> 0]

----------------------------------------------------------------------------
(* Store.dispatch *)

\* The handler the engine registers in #bindStoreSubscriptions
EngineVolumeHandler(W, volume) == [W EXCEPT !.el[W.primary].volume = volume]

\* A handler of a caller that itself calls dispatch: it sets the progress
\* back to 0.  The observation of the dispatch that called the handler goes
\* on after the inner dispatch has returned, with the calls the inner one made.
DispatchingHandler(W) ==
    LET inner == Invoke("dispatch", W, <<Act("SET_PROGRESS", 0), NoDraws>>)
    IN  [inner EXCEPT !.last = [W.last EXCEPT !.firedSel = @ \o inner.last.firedSel,
                                              !.firedGen = @ \o inner.last.firedGen,
                                              !.errors = @ + inner.last.errors]]

HandlerThrowUncaught(throws) == throws

\* try { entry.handler(newValue, prevValue) } catch (e) { console.error(...) }:
\* whether an exception of the handler leaves the try statement
HandlerThrowEscapes(throws) == FALSE

\* One call of entry.handler(newValue, prevValue) inside its try/catch
CallSelectorHandler(W, m, j, newValue, prevValue) ==
    LET entry == W.subs[m].entries[j]
        W1 == [W EXCEPT !.last.firedSel = Append(@, [id |-> entry.id, new |-> newValue,
                                                     prev |-> prevValue]),
                        !.subs[m].entries[j].seen = newValue]
        W2 == CASE entry.kind = "engine" -> EngineVolumeHandler(W1, newValue.v[1])
                [] entry.kind = "dispatching" -> DispatchingHandler(W1)
                [] OTHER -> W1
    IN  IF ~entry.throws THEN W2
        ELSE IF HandlerThrowEscapes(entry.throws) THEN [W2 EXCEPT !.last.returned = "thrown"]
        ELSE [W2 EXCEPT !.last.errors = @ + 1]

\* this.#selectorListeners.forEach(entries => entries.forEach(entry => ...)),
\* from entry j of the m-th selector on; nextState is the dispatch's local
RECURSIVE NotifySelectors(_, _, _, _)
NotifySelectors(W, m, j, nextState) ==
    IF W.last.returned = "thrown" \/ m > Len(W.subs) THEN W
    ELSE IF j > Len(W.subs[m].entries) THEN NotifySelectors(W, m + 1, 1, nextState)
    ELSE LET entry == W.subs[m].entries[j]
             newValue == Sel(entry.selector, nextState)
         IN  IF ~ShallowEqual(newValue, entry.lastValue)
             THEN LET prevValue == entry.lastValue
                      W1 == [W EXCEPT !.subs[m].entries[j].lastValue = newValue]
                  IN  NotifySelectors(CallSelectorHandler(W1, m, j, newValue, prevValue),
                                      m, j + 1, nextState)
             ELSE NotifySelectors(W, m, j + 1, nextState)

\* this.#listeners.forEach(listener => { try { listener(...) } catch ... })
RECURSIVE NotifyListeners(_, _)
NotifyListeners(W, i) ==
    IF W.last.returned = "thrown" \/ i > Len(W.listeners) THEN W
    ELSE LET l == W.listeners[i]
             W1 == [W EXCEPT !.last.firedGen = Append(@, l.id)]
         IN  NotifyListeners(
                 IF ~l.throws THEN W1
                 ELSE IF HandlerThrowEscapes(l.throws) THEN [W1 EXCEPT !.last.returned = "thrown"]
                 ELSE [W1 EXCEPT !.last.errors = @ + 1],
                 i + 1)

\* a dispatch without the early return
NeverSkipsNotification(same) == FALSE

\* if (nextState === prevState) return;
SkipsNotification(same) == same

Dispatch(W, action, rnd) ==
    LET r == Reduce(W.st, W.storage, action, rnd)
        obs == [type |-> action.type, action |-> action, rnd |-> rnd, same |-> r.same,
                returned |-> "normal", firedSel |-> <<>>, firedGen |-> <<>>, errors |-> 0]
    IN  IF r.threw THEN [W EXCEPT !.last = [obs EXCEPT !.returned = "thrown"]]
        ELSE IF SkipsNotification(r.same) THEN [W EXCEPT !.last = obs]
        ELSE LET W1 == [W EXCEPT !.st = r.st, !.storage = r.storage, !.last = obs]
             IN  NotifySelectors(NotifyListeners(W1, 1), 1, 1, r.st)

\* store.dispatch(action) as the code calls it: a method call (Invoke, below)
DispatchR(W, action, rnd) == Invoke("dispatch", W, <<action, rnd>>)

\* a dispatch that draws no random number
D(W, type, payload) == DispatchR(W, Act(type, payload), NoDraws)

\* select() that puts the new entry in front of the selector's earlier entries
SelectInFront(W, id, selector, kind, throws) ==
    LET entry == [id |-> id, selector |-> selector, kind |-> kind, throws |-> throws,
                  lastValue |-> Sel(selector, W.st), seen |-> Sel(selector, W.st)]
        known == \E m \in 1 .. Len(W.subs) : W.subs[m].selector = selector
        withKey == IF known THEN W.subs
                   ELSE Append(W.subs, [selector |-> selector, entries |-> <<>>])
    IN  [W EXCEPT !.subs = [m \in 1 .. Len(withKey) |->
                              IF withKey[m].selector = selector
                              THEN [withKey[m] EXCEPT !.entries = <<entry>> \o @]
                              ELSE withKey[m]]]

\* Store.select(selector, handler); kind and throws describe the handler
Select(W, id, selector, kind, throws) ==
    LET entry == [id |-> id, selector |-> selector, kind |-> kind, throws |-> throws,
                  lastValue |-> Sel(selector, W.st), seen |-> Sel(selector, W.st)]
        known == \E m \in 1 .. Len(W.subs) : W.subs[m].selector = selector
        withKey == IF known THEN W.subs
                   ELSE Append(W.subs, [selector |-> selector, entries |-> <<>>])
    IN  [W EXCEPT !.subs = [m \in 1 .. Len(withKey) |->
                              IF withKey[m].selector = selector
                              THEN [withKey[m] EXCEPT !.entries = Append(@, entry)]
                              ELSE withKey[m]]]

\* an unsubscribe function that leaves the entry registered
UnsubscribeKeepsEntry(W, id) == W

\* the function select() returns: this.#selectorListeners.get(selector)?.delete(entry)
Unsubscribe(W, id) ==
    [W EXCEPT !.subs = [m \in 1 .. Len(W.subs) |->
                          [W.subs[m] EXCEPT !.entries = SelectSeq(@, LAMBDA e : e.id # id)]]]

\* Store.subscribe(listener)
Subscribe(W, id, throws) == [W EXCEPT !.listeners = Append(@, [id |-> id, throws |-> throws])]

----------------------------------------------------------------------------
(* The state after construction: createInitialState, new Store(),          *)
(* new AudioPlayer().  Volume, repeat mode and shuffle flag are hydrated   *)
(* from localStorage, which holds what earlier runs of the store wrote.    *)

Elements == {1, 2}
Other(e) == 3 - e
NaN == -1

NewAudio == [src |-> NoTrack, volume |-> VOL_ONE, paused |-> TRUE, currentTime |-> 0,
             duration |-> NaN, net |-> "empty"]

InitialState(volume, repeatMode, shuffle) ==
    [currentTrack |-> NoTrack, playerState |-> "idle", progress |-> 0, duration |-> 0,
     volume |-> volume, queue |-> <<>>, queueIndex |-> -1, repeatMode |-> repeatMode,
     shuffle |-> shuffle, shuffledQueue |-> <<>>, isCrossfading |-> FALSE,
     error |-> FALSE, likedTrackIds |-> {}, library |-> <<>>, recentTracks |-> <<>>]

Constructed(volume, repeatMode, shuffle) ==
    /\ st = InitialState(volume, repeatMode, shuffle)
    /\ storage = [volume |-> volume, repeat |-> repeatMode, shuffle |-> shuffle,
                  liked |-> <<>>, library |-> <<>>, recent |-> <<>>]
    /\ subs = <<[selector |-> "volume",
                 entries |-> <<[id |-> 0, selector |-> "volume", kind |-> "engine",
                                throws |-> FALSE, lastValue |-> Num(volume),
                                seen |-> Num(volume)]>>]>>
    /\ listeners = <<>>
    /\ nextId = 0
    /\ last = NoDispatch
    /\ el = [e \in Elements |-> NewAudio]
    /\ primary = 1
    /\ retryCount = 0
    /\ timer = 0
    /\ bound = 0
    /\ attached = [e \in Elements |-> 0]
    /\ preloaded = NoTrack
    /\ loads = <<>>
    /\ waits = <<>>
    /\ played = <<>>
    /\ log = <<>>
    /\ autoNext = 0
    /\ halted = FALSE
    /\ ops = 0
    /\ ends = 0
    /\ call = ""

\* createInitialState over what localStorage holds: the state a store made
\* anew starts from
Hydrated(stor) ==
    [InitialState(stor.volume, stor.repeat, stor.shuffle)
        EXCEPT !.likedTrackIds = {stor.liked[i] : i \in DOMAIN stor.liked},
               !.library = stor.library,
               !.recentTracks = stor.recent]

\* a first run: nothing persisted, every preference at its default
InitStore == Constructed(VOL_ONE, "none", FALSE)

----------------------------------------------------------------------------
(* The store on its own: any caller subscribing and dispatching.  ops      *)
(* counts the calls made.                                                  *)

MaxStoreOps == 4

STORE_SELECTORS == {"volume", "progress", "queue", "likedTrackIds"}
ProgressInputs == {0, 1, 3}
VolumeInputs == {-1, 1, VOL_ONE + 1}
QueueOf(n) == [i \in 1 .. n |-> ((i - 1) % NTracks) + 1]

StoreCall(W) ==
    ops < MaxStoreOps /\ ops' = ops + 1 /\ Commit(W) /\ UNCHANGED <<ends, call, autoNext>>
StoreOther(W) == StoreCall([W EXCEPT !.last = NoDispatch])

StoreSelect ==
    \E selector \in STORE_SELECTORS, throws \in BOOLEAN :
        /\ nextId < MaxSubs
        /\ nextId' = nextId + 1
        /\ StoreOther(Select(World, nextId + 1, selector, "ui", throws))

StoreSubscribe ==
    \E throws \in BOOLEAN :
        /\ nextId < MaxSubs
        /\ nextId' = nextId + 1
        /\ StoreOther(Subscribe(World, nextId + 1, throws))

StoreUnsubscribe ==
    \E id \in 1 .. nextId :
        /\ \E m \in 1 .. Len(subs) : \E j \in 1 .. Len(subs[m].entries) :
               subs[m].entries[j].id = id
        /\ StoreOther(Unsubscribe(World, id))
        /\ UNCHANGED nextId

DispatchSetProgress ==
    \E p \in ProgressInputs :
        StoreCall(D(World, "SET_PROGRESS", p)) /\ UNCHANGED nextId

DispatchSetVolume ==
    \E v \in VolumeInputs :
        StoreCall(D(World, "SET_VOLUME", v)) /\ UNCHANGED nextId

DispatchSetPlayerState ==
    StoreCall(D(World, "SET_PLAYER_STATE", "playing")) /\ UNCHANGED nextId

DispatchSetCurrentTrack ==
    StoreCall(D(World, "SET_CURRENT_TRACK", 1)) /\ UNCHANGED nextId

DispatchSetQueue ==
    \E n \in {2, MaxQueue} : \E rnd \in Draws(IF st.shuffle THEN n ELSE 0) :
        /\ StoreCall(DispatchR(World, Act("SET_QUEUE", [queue |-> QueueOf(n), index |-> 0]), rnd))
        /\ UNCHANGED nextId

DispatchToggleShuffle ==
    \E rnd \in Draws(IF st.shuffle THEN 0 ELSE Len(st.queue)) :
        /\ StoreCall(DispatchR(World, Act("TOGGLE_SHUFFLE", 0), rnd))
        /\ UNCHANGED nextId

DispatchToggleLiked ==
    \E t \in {1, 2} :
        /\ StoreCall(D(World, "TOGGLE_LIKED", [trackId |-> t, track |-> t]))
        /\ UNCHANGED nextId

DispatchAddToLibrary ==
    \E t \in {1, 2} :
        StoreCall(D(World, "ADD_TO_LIBRARY", t)) /\ UNCHANGED nextId

\* the repeat button: none -> all -> one -> none
DispatchSetRepeatMode ==
    LET next == CASE st.repeatMode = "none" -> "all"
                  [] st.repeatMode = "all" -> "one"
                  [] OTHER -> "none"
    IN  StoreCall(D(World, "SET_REPEAT_MODE", next)) /\ UNCHANGED nextId

DispatchUnknown ==
    StoreCall(D(World, "@@UNKNOWN", 0)) /\ UNCHANGED nextId

NextStore ==
    \/ StoreSelect
    \/ StoreSubscribe
    \/ StoreUnsubscribe
    \/ DispatchSetProgress
    \/ DispatchSetVolume
    \/ DispatchSetPlayerState
    \/ DispatchSetCurrentTrack
    \/ DispatchSetQueue
    \/ DispatchToggleShuffle
    \/ DispatchToggleLiked
    \/ DispatchAddToLibrary
    \/ DispatchSetRepeatMode
    \/ DispatchUnknown

SpecStore == InitStore /\ [][NextStore]_vars

----------------------------------------------------------------------------
(* HTMLAudioElement, as the engine uses it.  net is the state of the        *)
(* element's resource: "empty" (never given a src), "nosrc" (src set to     *)
(* ''), "loading", "ready", "stalled" (playback starved), "failed".         *)

\* duration of a track's resource
TrackDur(t) == 100 + 10 * t
\* positions playback is observed at: 0.05 s, 3 s, 5 s
TimePoints == {1, 60, 100}

\* a play() promise that is pending on element e is rejected (AbortError)
\* when the element is paused or given a new resource
AbortPlays(W, e) ==
    [W EXCEPT !.waits = [i \in 1 .. Len(@) |->
                           IF @[i].k = "play" /\ @[i].e = e
                           THEN [@[i] EXCEPT !.aborted = TRUE] ELSE @[i]]]

\* el.src = url (and el.load()): the element drops its resource and starts to
\* fetch the new one
SetSrc(W, e, track) ==
    AbortPlays([W EXCEPT !.el[e] = [@ EXCEPT !.src = track, !.paused = TRUE,
                                       !.currentTime = 0, !.duration = NaN,
                                       !.net = IF track = NoTrack THEN "nosrc" ELSE "loading"]],
               e)

\* el.pause()
PauseEl(W, e) == AbortPlays([W EXCEPT !.el[e].paused = TRUE], e)

\* a pending el.play(): tag names the code that awaits it
PlayWait(tag, e, track) == [k |-> "play", tag |-> tag, e |-> e, track |-> track,
                            aborted |-> FALSE, live |-> TRUE, startVol |-> 0, targetVol |-> 0]
\* the requestAnimationFrame(tick) of a crossfade, with what tick closes over
RampWait(track, startVol, targetVol) ==
    [k |-> "ramp", tag |-> "", e |-> 0, track |-> track, aborted |-> FALSE, live |-> TRUE,
     startVol |-> startVol, targetVol |-> targetVol]
\* the sleep(AUDIO.RETRY_DELAY_MS) of play()'s catch block
SleepWait == [k |-> "sleep", tag |-> "", e |-> 0, track |-> NoTrack, aborted |-> FALSE,
              live |-> TRUE, startVol |-> 0, targetVol |-> 0]

Remove(q, i) == [j \in 1 .. Len(q) - 1 |-> IF j < i THEN q[j] ELSE q[j + 1]]

\* logPlayEvent(track)
\* an entry of the log of the running handler
Note(W, what) == [W EXCEPT !.log = Append(@, what)]

LogPlay(W, track) == [W EXCEPT !.played = Append(@, track)]

----------------------------------------------------------------------------
(* AudioPlayer: the synchronous part of each method, up to its first await *)
(* that suspends.  allowed tells whether the platform lets play() start    *)
(* (FALSE: NotAllowedError, the promise is rejected at once).              *)

StopProgressTimer(W) == IF W.timer > 0 THEN [W EXCEPT !.timer = @ - 1] ELSE W

StartProgressTimer(W) == [StopProgressTimer(W) EXCEPT !.timer = @ + 1]

\* removeEventListener on the current #primary: the handlers come off only
\* if that is the element they were attached to
DetachPrimaryListeners(W) ==
    [W EXCEPT !.attached[W.primary] = IF W.bound = W.primary THEN @ - 1 ELSE @,
              !.bound = 0]

AttachPrimaryListeners(W) ==
    LET W1 == DetachPrimaryListeners(W)
    IN  [W1 EXCEPT !.attached[W1.primary] = @ + 1, !.bound = W1.primary]

\* seek that hands the element the position as it was given
SeekUnclamped(W, seconds) ==
    LET duration == W.el[W.primary].duration
    IN  IF duration = NaN THEN W
        ELSE D([W EXCEPT !.el[W.primary].currentTime = seconds], "SET_PROGRESS", seconds)

Seek(W, seconds) ==
    LET duration == W.el[W.primary].duration
    IN  IF duration = NaN THEN W
        ELSE LET time == clamp(seconds, 0, duration)
             IN  D([W EXCEPT !.el[W.primary].currentTime = time], "SET_PROGRESS", time)

SeekRelative(W, delta) == Seek(W, W.el[W.primary].currentTime + delta)

Resume(W, allowed) ==
    IF W.el[W.primary].src = NoTrack THEN W
    ELSE IF ~allowed THEN W
    ELSE [W EXCEPT !.el[W.primary].paused = FALSE, !.halted = FALSE,
                   !.waits = Append(@, PlayWait("resume", W.primary, NoTrack))]

\* after await this.#primary.play() in resume()
ResumeStarted(W) == StartProgressTimer(D(W, "SET_PLAYER_STATE", "playing"))

Pause(W) ==
    [StopProgressTimer(D(PauseEl(W, W.primary), "SET_PLAYER_STATE", "paused"))
        EXCEPT !.halted = TRUE]

Toggle(W, allowed) ==
    IF W.st.playerState = "playing" THEN Pause(W) ELSE Resume(W, allowed)

LoadAudio(W, track) ==
    LET W1 == DetachPrimaryListeners(W)
        W2 == D(W1, "SET_PLAYER_STATE", "loading")
        W3 == D(W2, "SET_PROGRESS", 0)
        W4 == D(W3, "SET_DURATION", 0)
        W5 == SetSrc(W4, W4.primary, track)
        W6 == [W5 EXCEPT !.el[W5.primary].volume = W5.st.volume]
    IN  [W6 EXCEPT !.loads = Append(@, [e |-> W6.primary, track |-> track, pending |-> TRUE,
                                        canplay |-> TRUE, error |-> TRUE, waiting |-> TRUE])]

\* play(track, queue, queueIndex); hasQueue is FALSE for queue = null
Play(W, track, hasQueue, queue, queueIndex, rnd) ==
    LET W1 == IF hasQueue
              THEN DispatchR(W, Act("SET_QUEUE", [queue |-> queue, index |-> queueIndex]), rnd)
              ELSE W
        W2 == D(W1, "SET_CURRENT_TRACK", track)
        W3 == D(W2, "SET_PLAYER_STATE", "loading")
    IN  LoadAudio([W3 EXCEPT !.halted = FALSE], track)

PlayTrack(W, track) == Play(W, track, FALSE, <<>>, 0, NoDraws)

\* the catch block of play()
PlayFailed(W) ==
    LET W1 == D(Note(W, "failed"), "SET_PLAYER_STATE", "error")
        W2 == D(W1, "SET_ERROR", TRUE)
    IN  IF W2.retryCount < MAX_RETRIES
        THEN [W2 EXCEPT !.retryCount = @ + 1, !.waits = Append(@, SleepWait)]
        ELSE W2

\* onCanPlay after await this.#primary.play() has resolved, and the rest of
\* play() after await this.#loadAudio()
LoadStarted(W, track) ==
    LET W1 == D(W, "SET_PLAYER_STATE", "playing")
        W2 == Note([W1 EXCEPT !.retryCount = 0], "loaded")
        W3 == AttachPrimaryListeners(StartProgressTimer(W2))
    IN  LogPlay(W3, track)

\* a refused autoplay taken for a failed load
LoadBlockedAsFailure(W, track) == PlayFailed(Note(W, "blocked"))

\* onCanPlay when play() is rejected with NotAllowedError
LoadBlocked(W, track) ==
    LogPlay(AttachPrimaryListeners(D(Note(W, "blocked"), "SET_PLAYER_STATE", "paused")), track)

\* next() that stops at the end of the queue whatever the repeat mode
NextNoWrap(W, allowed) ==
    LET queue == activeQueue(W.st)
        index == W.st.queueIndex + 1
    IN  IF Len(queue) = 0 THEN W
        ELSE IF W.st.repeatMode = "one" THEN Resume(Seek(W, 0), allowed)
        ELSE IF index >= Len(queue) THEN D(W, "SET_PLAYER_STATE", "ended")
        ELSE PlayTrack(D(W, "SET_QUEUE_INDEX", index), queue[index + 1])

\* next() that advances under the repeat mode one as under the others
NextSkipsRepeatOne(W, allowed) ==
    LET queue == activeQueue(W.st)
        index == W.st.queueIndex + 1
    IN  IF Len(queue) = 0 THEN W
        ELSE IF index >= Len(queue)
        THEN IF W.st.repeatMode \in {"all", "one"}
             THEN PlayTrack(D(W, "SET_QUEUE_INDEX", 0), queue[1])
             ELSE D(W, "SET_PLAYER_STATE", "ended")
        ELSE PlayTrack(D(W, "SET_QUEUE_INDEX", index), queue[index + 1])

Next(W, allowed) ==
    LET queue == activeQueue(W.st)
        index == W.st.queueIndex + 1
    IN  IF Len(queue) = 0 THEN W
        ELSE IF W.st.repeatMode = "one" THEN Resume(Seek(W, 0), allowed)
        ELSE IF index >= Len(queue)
        THEN IF W.st.repeatMode = "all"
             THEN PlayTrack(D(W, "SET_QUEUE_INDEX", 0), queue[1])
             ELSE D(W, "SET_PLAYER_STATE", "ended")
        ELSE PlayTrack(D(W, "SET_QUEUE_INDEX", index), queue[index + 1])

\* prev() that restarts from 3 s on
PrevRestartAt3s(W) ==
    LET queue == activeQueue(W.st)
    IN  IF W.el[W.primary].currentTime >= PREV_RESTART_AFTER THEN Seek(W, 0)
        ELSE LET i0 == W.st.queueIndex - 1
                 index == IF i0 < 0
                          THEN (IF W.st.repeatMode = "all" THEN Len(queue) - 1 ELSE 0)
                          ELSE i0
                 W1 == D(W, "SET_QUEUE_INDEX", index)
             IN  IF index + 1 \in DOMAIN queue THEN PlayTrack(W1, queue[index + 1]) ELSE W1

Prev(W) ==
    LET queue == activeQueue(W.st)
    IN  IF W.el[W.primary].currentTime > PREV_RESTART_AFTER THEN Seek(W, 0)
        ELSE LET i0 == W.st.queueIndex - 1
                 index == IF i0 < 0
                          THEN (IF W.st.repeatMode = "all" THEN Len(queue) - 1 ELSE 0)
                          ELSE i0
                 W1 == D(W, "SET_QUEUE_INDEX", index)
             IN  IF index + 1 \in DOMAIN queue THEN PlayTrack(W1, queue[index + 1]) ELSE W1

\* setVolume that hands the element the volume as it was given
SetVolumeUnclamped(W, volume) ==
    LET W1 == [W EXCEPT !.el[W.primary].volume = volume, !.el[Other(W.primary)].volume = 0]
    IN  [D(W1, "SET_VOLUME", volume) EXCEPT !.el[W.primary].volume = volume]

SetVolume(W, volume) ==
    LET v == clamp(volume, 0, VOL_ONE)
        W1 == [W EXCEPT !.el[W.primary].volume = v, !.el[Other(W.primary)].volume = 0]
    IN  D(W1, "SET_VOLUME", v)

SetQueue(W, tracks, startIndex, rnd) ==
    DispatchR(W, Act("SET_QUEUE", [queue |-> tracks, index |-> startIndex]), rnd)

AddToQueueNext(W, track, rnd) ==
    LET queue == W.st.queue
        queueIndex == W.st.queueIndex
        \* slice(0, queueIndex + 1) and slice(queueIndex + 1); a negative
        \* argument of slice counts from the end of the array
        cut == IF queueIndex + 1 >= 0 THEN Min(queueIndex + 1, Len(queue))
               ELSE Max(Len(queue) + queueIndex + 1, 0)
        newQueue == SubSeq(queue, 1, cut) \o <<track>> \o SubSeq(queue, cut + 1, Len(queue))
    IN  DispatchR(W, Act("SET_QUEUE", [queue |-> newQueue, index |-> queueIndex]), rnd)

\* crossfadeTo after await this.#secondary.play().catch(), up to the first
\* requestAnimationFrame(tick)
StartRamp(W, nextTrack) ==
    [W EXCEPT !.waits = Append(@, RampWait(nextTrack, W.el[W.primary].volume, W.st.volume))]

\* #onEnded after await this.crossfadeTo(queue[nextIndex]) has returned
AfterCrossfadeTo(W, nextTrack) == D(W, "SET_CURRENT_TRACK", nextTrack)

\* crossfadeTo(nextTrack) as #onEnded calls it
CrossfadeTo(W, nextTrack, allowed) ==
    LET W1 == D(W, "SET_CROSSFADING", TRUE)
        sec == Other(W1.primary)
        W2 == SetSrc(W1, sec, nextTrack)
        W3 == [W2 EXCEPT !.el[sec].volume = 0]
    IN  IF allowed
        THEN [W3 EXCEPT !.el[sec].paused = FALSE,
                        !.waits = Append(@, PlayWait("xfade", sec, nextTrack))]
        ELSE AfterCrossfadeTo(StartRamp(W3, nextTrack), nextTrack)

\* one frame of tick with t < 1; the frame is taken at eased = 1/2
RampFrame(W, w) ==
    [W EXCEPT !.el[W.primary].volume = w.startVol - w.startVol \div 2,
              !.el[Other(W.primary)].volume = w.targetVol \div 2]

\* the frame of tick with t = 1
RampEnd(W, w) ==
    LET old == W.primary
        new == Other(W.primary)
        W1 == [W EXCEPT !.el[old].volume = 0, !.el[new].volume = w.targetVol]
        W2 == SetSrc(PauseEl(W1, old), old, NoTrack)
        W3 == [W2 EXCEPT !.primary = new, !.el[old].volume = 0]
        W4 == D(W3, "SET_CURRENT_TRACK", w.track)
        W5 == D(W4, "SET_CROSSFADING", FALSE)
    IN  LogPlay(StartProgressTimer(AttachPrimaryListeners(W5)), w.track)

\* #onEnded without its repeat-one branch
OnEndedNoRepeatOne(W, allowed) ==
    LET state == W.st
        queue == activeQueue(state)
        W0 == StopProgressTimer(W)
        nextIndex == state.queueIndex + 1
    IN  IF nextIndex < Len(queue)
        THEN CrossfadeTo(D(W0, "SET_QUEUE_INDEX", nextIndex), queue[nextIndex + 1], allowed)
        ELSE IF state.repeatMode = "all"
        THEN PlayTrack(D(W0, "SET_QUEUE_INDEX", 0), queue[1])
        ELSE D(D(W0, "SET_PLAYER_STATE", "ended"), "SET_PROGRESS", 0)

OnEnded(W, allowed) ==
    LET state == W.st
        queue == activeQueue(state)
        W0 == StopProgressTimer(W)
        nextIndex == state.queueIndex + 1
    IN  IF state.repeatMode = "one" THEN Resume(Seek(W0, 0), allowed)
        ELSE IF nextIndex < Len(queue)
        THEN CrossfadeTo(D(W0, "SET_QUEUE_INDEX", nextIndex), queue[nextIndex + 1], allowed)
        ELSE IF state.repeatMode = "all"
        THEN PlayTrack(D(W0, "SET_QUEUE_INDEX", 0), queue[1])
        ELSE D(D(W0, "SET_PLAYER_STATE", "ended"), "SET_PROGRESS", 0)

OnError(W) == D(D(W, "SET_PLAYER_STATE", "error"), "SET_ERROR", TRUE)

OnWaiting(W) == D(W, "SET_PLAYER_STATE", "buffering")

OnPlaying(W) == StartProgressTimer(D(W, "SET_PLAYER_STATE", "playing"))

OnDurationChange(W) ==
    IF W.el[W.primary].duration # NaN
    THEN D(W, "SET_DURATION", W.el[W.primary].duration) ELSE W

\* preloadNext that makes a new Audio on every call
PreloadNextEveryCall(W, track) ==
    IF track = NoTrack THEN W ELSE Note([W EXCEPT !.preloaded = track], "preload")

PreloadNext(W, track) ==
    IF track = NoTrack \/ W.preloaded = track THEN W
    ELSE Note([W EXCEPT !.preloaded = track], "preload")

\* the callback of setInterval in #startProgressTimer
ProgressTimerFired(W) ==
    IF W.el[W.primary].paused THEN W
    ELSE LET current == W.el[W.primary].currentTime
             duration == W.el[W.primary].duration
             W1 == D(Note(W, "tick"), "SET_PROGRESS", current)
             queue == activeQueue(W1.st)
             nextIndex == W1.st.queueIndex + 1
         IN  IF duration # NaN /\ duration > 0
                /\ current * 100 >= PRELOAD_NEXT_AT_PERCENT * duration
                /\ nextIndex < Len(queue)
             THEN PreloadNext(W1, IF nextIndex + 1 \in DOMAIN queue
                                  THEN queue[nextIndex + 1] ELSE NoTrack)
             ELSE W1

----------------------------------------------------------------------------
(* Events of an element: every listener on the element runs, one after the *)
(* other, each up to its first suspending await                            *)

\* the k-th to n-th handler set of element e run Op; a set that an earlier
\* handler of the same event has removed does not run
RECURSIVE Times(_, _, _, _, _)
Times(Op(_), W, e, k, n) ==
    IF k > n \/ k > W.attached[e] THEN W ELSE Times(Op, Op(W), e, k + 1, n)

\* cleanup() of a load cycle: removeEventListener on the current #primary
Cleanup(W, i) ==
    IF W.primary = W.loads[i].e
    THEN [W EXCEPT !.loads[i].canplay = FALSE, !.loads[i].error = FALSE,
                   !.loads[i].waiting = FALSE]
    ELSE W

\* onCanPlay of the i-th load cycle
OnCanPlay(W, i, allowed) ==
    LET W1 == Cleanup([W EXCEPT !.loads[i].canplay = FALSE], i)
        live == W1.loads[i].pending
        W2 == [W1 EXCEPT !.loads[i].pending = FALSE]
        W3 == D(W2, "SET_DURATION", W2.el[W2.primary].duration)
        track == W3.loads[i].track
    IN  IF allowed
        THEN [W3 EXCEPT !.el[W3.primary].paused = FALSE,
                        !.waits = Append(@, [PlayWait("load", W3.primary, track)
                                               EXCEPT !.live = live])]
        ELSE IF live THEN LoadBlocked(W3, track)
        ELSE AttachPrimaryListeners(D(W3, "SET_PLAYER_STATE", "paused"))

\* onError of the i-th load cycle
OnLoadError(W, i) ==
    LET W1 == Cleanup([W EXCEPT !.loads[i].error = FALSE], i)
        live == W1.loads[i].pending
        W2 == [W1 EXCEPT !.loads[i].pending = FALSE]
    IN  IF live THEN PlayFailed(W2) ELSE W2

\* onWaiting of the i-th load cycle
OnLoadWaiting(W, i) ==
    D([W EXCEPT !.loads[i].waiting = FALSE], "SET_PLAYER_STATE", "buffering")

\* the load cycles' listeners for one event of element e, in the order the
\* cycles registered them, from cycle i on
RECURSIVE LoadListeners(_, _, _, _, _)
LoadListeners(W, e, event, i, allowed) ==
    IF i > Len(W.loads) THEN W
    ELSE IF W.loads[i].e # e THEN LoadListeners(W, e, event, i + 1, allowed)
    ELSE LET W1 == CASE event = "canplay" /\ W.loads[i].canplay -> OnCanPlay(W, i, allowed)
                     [] event = "error" /\ W.loads[i].error -> OnLoadError(W, i)
                     [] event = "waiting" /\ W.loads[i].waiting -> OnLoadWaiting(W, i)
                     [] OTHER -> W
         IN  LoadListeners(W1, e, event, i + 1, allowed)

\* load cycles with no listener left on any element are garbage
Collect(W) ==
    [W EXCEPT !.loads = SelectSeq(@, LAMBDA l : l.canplay \/ l.error \/ l.waiting)]

\* one event of element e reaches the engine's handler sets attached to e (as
\* many as were attached when the event was fired) and the load cycles
FireOne(W, e, event, allowed) ==
    LET n == W.attached[e]
        W1 == CASE event = "ended" -> Times(LAMBDA X : OnEnded(X, allowed), W, e, 1, n)
                [] event = "error" -> Times(OnError, W, e, 1, n)
                [] event = "waiting" -> Times(OnWaiting, W, e, 1, n)
                [] event = "playing" -> Times(OnPlaying, W, e, 1, n)
                [] event = "durationchange" -> Times(OnDurationChange, W, e, 1, n)
                [] OTHER -> W
    IN  Collect(LoadListeners(W1, e, event, 1, allowed))

FireThen(W, e, event, allowed) ==
    IF W.el[e].paused THEN W ELSE FireOne(W, e, event, allowed)

\* the events one change of element e sets off: playback that recovers fires
\* canplay and, unless a listener of canplay paused the element, playing
Fire(W, e, event, allowed) ==
    IF event = "unstalled"
    THEN FireThen(FireOne(W, e, "canplay", allowed), e, "playing", allowed)
    ELSE FireOne(W, e, event, allowed)

\* what awaits a play() promise continues when the promise settles
PlaySettled(W, w) ==
    LET ok == ~w.aborted /\ W.el[w.e].net = "ready"
        W1 == IF ok THEN FireOne(W, w.e, "playing", TRUE) ELSE W
    IN  CASE w.tag = "load" /\ ok ->
                 IF w.live THEN LoadStarted(W1, w.track)
                 ELSE [LoadStarted(W1, w.track) EXCEPT !.played = W1.played]
          [] w.tag = "load" /\ ~ok -> IF w.live THEN PlayFailed(W1) ELSE W1
          [] w.tag = "resume" /\ ok -> ResumeStarted(W1)
          [] w.tag = "resume" /\ ~ok -> W1
          [] w.tag = "xfade" -> AfterCrossfadeTo(StartRamp(W1, w.track), w.track)

----------------------------------------------------------------------------
(* Method calls and event delivery *)

Invoke(method, W, a) ==
    CASE method = "dispatch" -> Dispatch(W, a[1], a[2])
      [] method = "play" -> Play(W, a[1], TRUE, a[2], a[3], a[4])
      [] method = "toggle" -> Toggle(W, a[1])
      [] method = "seek" -> Seek(W, a[1])
      [] method = "seekRelative" -> SeekRelative(W, a[1])
      [] method = "next" -> Next(W, a[1])
      [] method = "prev" -> Prev(W)
      [] method = "setVolume" -> SetVolume(W, a[1])
      [] method = "addToQueueNext" -> AddToQueueNext(W, a[1], a[2])
      [] method = "event" -> Fire(W, a[1], a[2], a[3])
      [] method = "playSettled" -> PlaySettled(W, a[1])
      [] method = "tick" -> IF a[2] THEN RampEnd(W, a[1]) ELSE RampFrame(W, a[1])
      [] method = "progressTimer" -> ProgressTimerFired(W)

----------------------------------------------------------------------------
(* The engine with its environment: the user (ops counts the calls), the   *)
(* two media elements, the animation frames and the timers.  An action     *)
(* with a parameter P takes from P whether the platform lets a play() the  *)
(* handler makes start.                                                    *)

\* no dispatch is recorded for the steps of the engine
Step(W) == Commit([W EXCEPT !.last = NoDispatch]) /\ UNCHANGED nextId
\* the count of automatic next() calls after a step that made n of them
Tally(n) == autoNext' = IF \E i \in 1 .. Len(log') : log'[i] = "loaded" THEN 0 ELSE autoNext + n
EnvStep(W) == Step(W) /\ call' = "" /\ Tally(0) /\ UNCHANGED <<ops, ends>>
UserStep(method, a) ==
    /\ ops < MaxOps
    /\ ops' = ops + 1
    /\ call' = method
    /\ Step(Invoke(method, World, a))
    /\ Tally(0)
    /\ UNCHANGED ends

\* natural ends of a resource in one run
MaxEnds == 2

Granted == {TRUE}
SeekInputs == {-20, 40, 300}
SeekDeltas == {-20, 20}
PlayLengths == {1, MaxQueue}

\* the UI's onPlay: play(track, queue, Math.max(0, idx))
UserPlay ==
    \E n \in PlayLengths : \E i \in 1 .. n :
        \E rnd \in Draws(IF st.shuffle THEN n ELSE 0) :
            UserStep("play", <<QueueOf(n)[i], QueueOf(n), i - 1, rnd>>)

UserToggle(P) == \E allowed \in P : UserStep("toggle", <<allowed>>)

UserSeek == \E seconds \in SeekInputs : UserStep("seek", <<seconds>>)

UserSeekRelative == \E delta \in SeekDeltas : UserStep("seekRelative", <<delta>>)

UserNext(P) == \E allowed \in P : UserStep("next", <<allowed>>)

UserPrev == UserStep("prev", <<>>)

UserSetVolume == \E v \in VolumeInputs : UserStep("setVolume", <<v>>)

UserAddToQueueNext ==
    \E rnd \in Draws(IF st.shuffle THEN Len(st.queue) + 1 ELSE 0) :
        /\ Len(st.queue) < QueueCap
        /\ UserStep("addToQueueNext", <<NTracks, rnd>>)

UserToggleShuffle ==
    \E rnd \in Draws(IF st.shuffle THEN 0 ELSE Len(st.queue)) :
        UserStep("dispatch", <<Act("TOGGLE_SHUFFLE", 0), rnd>>)

\* the repeat button cycles none -> all -> one -> none
UserCycleRepeat ==
    LET next == CASE st.repeatMode = "none" -> "all"
                  [] st.repeatMode = "all" -> "one"
                  [] OTHER -> "none"
    IN  UserStep("dispatch", <<Act("SET_REPEAT_MODE", next), NoDraws>>)

\* the resource of element e arrives: durationchange, then canplay
LoadSucceeds(P) ==
    \E e \in Elements : \E allowed \in P :
        /\ el[e].net = "loading"
        /\ EnvStep(Invoke("event",
                          Invoke("event",
                                 [World EXCEPT !.el[e].net = "ready",
                                               !.el[e].duration = TrackDur(el[e].src)],
                                 <<e, "durationchange", allowed>>),
                          <<e, "canplay", allowed>>))

\* the resource of element e cannot be fetched or decoded
LoadFails ==
    \E e \in Elements :
        /\ el[e].net = "loading"
        /\ EnvStep(Invoke("event", [World EXCEPT !.el[e].net = "failed"], <<e, "error", TRUE>>))

\* the error event of an element whose src was set to ''
EmptySrcError ==
    \E e \in Elements :
        /\ el[e].net = "nosrc"
        /\ EnvStep(Invoke("event", [World EXCEPT !.el[e].net = "empty"], <<e, "error", TRUE>>))

\* element e plays: it has data, is not paused, and the promises of the
\* play() calls that started it are settled
IsPlaying(e) ==
    /\ el[e].net = "ready" /\ ~el[e].paused
    /\ \A i \in 1 .. Len(waits) : ~(waits[i].k = "play" /\ waits[i].e = e)

\* playback of element e reaches the position p; the 250 ms interval of
\* #startProgressTimer fires on the way when the advance is that long
AdvanceTime ==
    \E e \in Elements : \E p \in TimePoints :
        /\ IsPlaying(e)
        /\ p > el[e].currentTime /\ p < el[e].duration
        /\ e = primary
        /\ LET W == [World EXCEPT !.el[e].currentTime = p]
           IN  EnvStep(IF timer > 0 /\ p - el[e].currentTime >= PROGRESS_TIMER_PERIOD
                       THEN Invoke("progressTimer", W, <<>>)
                       ELSE W)

\* playback of element e reaches the end of its resource (a resource lasts
\* longer than a crossfade); the 250 ms interval of #startProgressTimer fires
\* on the way when the end is that far
Ended(P, max) ==
    \E e \in Elements : \E allowed \in P :
        /\ IsPlaying(e)
        /\ \A i \in 1 .. Len(waits) : waits[i].k # "ramp"
        /\ ends < max
        /\ ends' = ends + 1
        /\ call' = ""
        /\ UNCHANGED ops
        /\ LET W == IF timer > 0 /\ e = primary
                       /\ el[e].duration - el[e].currentTime >= PROGRESS_TIMER_PERIOD
                    THEN Invoke("progressTimer",
                                [World EXCEPT !.el[e].currentTime = el[e].duration - 1],
                                <<>>)
                    ELSE World
           IN  Step(Invoke("event",
                           [W EXCEPT !.el[e].currentTime = el[e].duration,
                                     !.el[e].paused = TRUE],
                           <<e, "ended", allowed>>))
        /\ Tally(0)

\* playback of element e starves
Stall ==
    \E e \in Elements :
        /\ IsPlaying(e)
        /\ EnvStep(Invoke("event", [World EXCEPT !.el[e].net = "stalled"], <<e, "waiting", TRUE>>))

\* playback of element e recovers: canplay, then playing
Unstall(P) ==
    \E e \in Elements : \E allowed \in P :
        /\ el[e].net = "stalled"
        /\ EnvStep(Invoke("event", [World EXCEPT !.el[e].net = "ready"],
                          <<e, "unstalled", allowed>>))

\* a pending play() promise settles
PlaySettles ==
    \E i \in 1 .. Len(waits) :
        LET w == waits[i]
        IN  /\ w.k = "play"
            /\ w.aborted \/ el[w.e].net \in {"ready", "failed", "nosrc", "empty"}
            /\ EnvStep(Invoke("playSettled", [World EXCEPT !.waits = Remove(@, i)], <<w>>))

\* an animation frame of a crossfade
RampTick ==
    \E i \in 1 .. Len(waits) : \E final \in BOOLEAN :
        /\ waits[i].k = "ramp"
        /\ EnvStep(Invoke("tick",
                          IF final THEN [World EXCEPT !.waits = Remove(@, i)] ELSE World,
                          <<waits[i], final>>))

\* the retry delay of a failed play() is over: await this.next()
SleepDone(P) ==
    \E i \in 1 .. Len(waits) : \E allowed \in P :
        /\ waits[i].k = "sleep"
        /\ autoNext <= MAX_RETRIES
        /\ call' = "next"
        /\ Step(Invoke("next", [World EXCEPT !.waits = Remove(@, i)], <<allowed>>))
        /\ Tally(1)
        /\ UNCHANGED <<ops, ends>>

ProgressTick == timer > 0 /\ EnvStep(Invoke("progressTimer", World, <<>>))

\* what earlier runs left in localStorage: a volume and a repeat mode
Init == \E volume \in {VOL_ONE \div 2, VOL_ONE}, repeatMode \in REPEAT_MODES :
            Constructed(volume, repeatMode, FALSE)

\* playback with every resource loading and every play() starting
Next_ ==
    \/ UserPlay
    \/ UserToggle(Granted)
    \/ UserSeek
    \/ UserSeekRelative
    \/ UserNext(Granted)
    \/ UserPrev
    \/ UserSetVolume
    \/ UserAddToQueueNext
    \/ UserToggleShuffle
    \/ UserCycleRepeat
    \/ LoadSucceeds(Granted)
    \/ EmptySrcError
    \/ AdvanceTime
    \/ Ended(Granted, MaxEnds)
    \/ PlaySettles
    \/ RampTick
    \/ SleepDone(Granted)
    \/ ProgressTick

Spec == Init /\ [][Next_]_vars

\* a first run in which resources may fail or stall and play() may be refused
MaxFaultOps == 1

InitFaults == \E repeatMode \in {"none", "all"} : Constructed(VOL_ONE, repeatMode, FALSE)

UserPlayOnce ==
    /\ ops < MaxFaultOps
    /\ \E i \in 1 .. MaxQueue :
           UserStep("play", <<QueueOf(MaxQueue)[i], QueueOf(MaxQueue), i - 1, NoDraws>>)

\* an unrecoverable error of element e once its resource was loaded: the
\* element fires error at the listeners it has then
MediaError ==
    \E e \in Elements :
        /\ el[e].net \in {"ready", "stalled"}
        /\ EnvStep(Invoke("event", [World EXCEPT !.el[e].net = "failed"], <<e, "error", TRUE>>))

NextFaults ==
    \/ UserPlayOnce
    \/ LoadSucceeds(BOOLEAN)
    \/ LoadFails
    \/ MediaError
    \/ EmptySrcError
    \/ AdvanceTime
    \/ Ended(BOOLEAN, MaxEnds)
    \/ Stall
    \/ Unstall(BOOLEAN)
    \/ PlaySettles
    \/ RampTick
    \/ SleepDone(BOOLEAN)
    \/ ProgressTick

SpecFaults == InitFaults /\ [][NextFaults]_vars

\* a queue played from its first track to its end, nothing else called:
\* shuffle off, repeat off
AdvanceLen == 5
AdvanceEnds == 5

InitAdvance == Constructed(VOL_ONE \div 2, "none", FALSE)

UserPlayFirst ==
    \E n \in {MaxQueue, AdvanceLen} :
        /\ ops = 0
        /\ UserStep("play", <<QueueOf(n)[1], QueueOf(n), 0, NoDraws>>)

NextAdvance ==
    \/ UserPlayFirst
    \/ LoadSucceeds(Granted)
    \/ EmptySrcError
    \/ AdvanceTime
    \/ Ended(Granted, AdvanceEnds)
    \/ PlaySettles
    \/ RampTick
    \/ ProgressTick

SpecAdvance == InitAdvance /\ [][NextAdvance]_vars

\* a play() that interrupts the crossfade which the end of the first track
\* of a queue has started
InterruptEnds == 1

UserPlayInRamp ==
    \E t \in Tracks :
        /\ ops = 1
        /\ \E i \in 1 .. Len(waits) : waits[i].k = "ramp"
        /\ UserStep("play", <<t, <<t>>, 0, NoDraws>>)

NextInterrupt ==
    \/ UserPlayFirst
    \/ UserPlayInRamp
    \/ LoadSucceeds(Granted)
    \/ EmptySrcError
    \/ AdvanceTime
    \/ Ended(Granted, InterruptEnds)
    \/ PlaySettles
    \/ RampTick
    \/ SleepDone(Granted)
    \/ ProgressTick

SpecInterrupt == InitAdvance /\ [][NextInterrupt]_vars

----------------------------------------------------------------------------
(* Properties of Store.dispatch, over the steps of SpecStore that are one  *)
(* dispatch (last'.type names the action dispatched by the step)           *)

Entries(S) == { S[m].entries[j] : <<m, j>> \in
                  { x \in (1 .. Len(S)) \X (1 .. MaxSubs + 1) : x[2] <= Len(S[x[1]].entries) } }
Calls(f, id) == { i \in 1 .. Len(f) : f[i].id = id }
IsDispatchStep == last'.type # ""

\* C1: a dispatch whose reduction returns the state reference it was given
\* leaves the state (and everything the store holds) as it was and calls no
\* selector handler and no general listener; SET_PROGRESS less than 0.1 s
\* away, SET_PLAYER_STATE with the current value, SET_CURRENT_TRACK with the
\* current track and an unknown action type are such dispatches.
C1_NoopDispatchIsSilent ==
    [][IsDispatchStep =>
         /\ last'.same =>
               /\ st' = st /\ storage' = storage /\ subs' = subs /\ el' = el
               /\ last'.firedSel = <<>> /\ last'.firedGen = <<>>
               /\ last'.returned = "normal"
         /\ last'.type = "SET_PROGRESS" /\ Abs(last'.action.payload - st.progress) < PROGRESS_EPS
               => last'.same
         /\ last'.type = "SET_PLAYER_STATE" /\ last'.action.payload = st.playerState
               => last'.same
         /\ last'.type = "SET_CURRENT_TRACK" /\ last'.action.payload = st.currentTrack
               => last'.same
         /\ last'.type = "@@UNKNOWN" => last'.same
      ]_vars

\* a no-op SET_PROGRESS was dispatched with a general listener and a selector
\* handler on progress registered
C1_Witness ==
    /\ last.type = "SET_PROGRESS" /\ last.same
    /\ Len(listeners) > 0
    /\ \E e \in Entries(subs) : e.selector = "progress"

\* C2: in every dispatch each selector handler is called exactly once, with
\* (new value, value it last observed), when its projection of the new state
\* differs from the value it last observed, and not at all when it does not;
\* no SET_PROGRESS dispatch calls a handler on the volume selector.
C2_HandlerOncePerChange ==
    [][IsDispatchStep =>
         /\ \A e \in Entries(subs) :
               LET now == Sel(e.selector, st')
                   calls == Calls(last'.firedSel, e.id)
               IN  IF now # e.seen
                   THEN /\ Cardinality(calls) = 1
                        /\ \A i \in calls : last'.firedSel[i] =
                                               [id |-> e.id, new |-> now, prev |-> e.seen]
                   ELSE calls = {}
         /\ last'.type = "SET_PROGRESS" =>
               \A e \in Entries(subs) : e.selector = "volume" => Calls(last'.firedSel, e.id) = {}
      ]_vars

\* one dispatch called a handler on the liked-id set and left the engine's
\* volume handler alone
C2_Witness ==
    /\ last.type = "TOGGLE_LIKED"
    /\ \E e \in Entries(subs) : e.selector = "likedTrackIds" /\ Calls(last.firedSel, e.id) # {}
    /\ Calls(last.firedSel, 0) = {}

\* C10: when a selector handler throws during a dispatch, every handler whose
\* projection changed is still called in that dispatch, the reduced state
\* stays installed, and dispatch returns normally.
C10_ThrowingHandlerIsolated ==
    [][IsDispatchStep /\ ~last'.same
         /\ (\E e \in Entries(subs) : e.throws /\ Sel(e.selector, st') # e.seen) =>
         /\ \A e \in Entries(subs) :
               Sel(e.selector, st') # e.seen => Calls(last'.firedSel, e.id) # {}
         /\ st' = Reduce(st, storage, last'.action, last'.rnd).st
         /\ last'.returned = "normal"
      ]_vars

\* a dispatch called a throwing handler first and another handler after it
C10_Witness ==
    /\ Len(last.firedSel) >= 2
    /\ \E e \in Entries(subs) : e.throws /\ e.id = last.firedSel[1].id
    /\ last.errors >= 1
    /\ last.returned = "normal"

----------------------------------------------------------------------------
(* Properties of natural playback (SpecAdvance, SpecInterrupt) *)

\* C3: with shuffle off and repeat off, after play(queue[0], queue, 0) every
\* natural end moves queueIndex on by exactly one, so that it counts the ends;
\* the end of the last track sets playerState to ended and progress to 0 and
\* leaves queueIndex at the last index
C3_NaturalEndAdvancesByOne ==
    [][ends' = ends + 1 =>
        IF st.queueIndex + 1 < Len(st.queue)
        THEN st'.queueIndex = st.queueIndex + 1 /\ st'.queueIndex = ends'
        ELSE /\ st'.playerState = "ended"
             /\ st'.progress = 0
             /\ st'.queueIndex = Len(st.queue) - 1]_vars

\* nothing is pending: no promise, frame or timer to continue from, no
\* resource being fetched, no error event due
Settled ==
    /\ waits = <<>>
    /\ \A e \in Elements : el[e].net \notin {"loading", "nosrc"}

\* C4: after a play(track) made during the ramp of a crossfade, when all
\* callbacks have run, the active element alone plays, it plays the requested
\* track at the store's volume, the standby element is stopped and silent and
\* currentTrack is the requested track
C4_PlayDuringRampWins ==
    (ops = 2 /\ ends = 1 /\ Settled) =>
        /\ ~el[primary].paused
        /\ el[primary].src = st.queue[1]
        /\ el[primary].volume = st.volume
        /\ el[Other(primary)].paused
        /\ el[Other(primary)].volume = 0
        /\ st.currentTrack = st.queue[1]

----------------------------------------------------------------------------
(* Properties of the queue and the transport (Spec, SpecStore) *)

\* C5: queueIndex is an index of the active queue, or -1 when the queue is
\* empty
C5_QueueIndexValid ==
    IF Len(activeQueue(st)) = 0 THEN st.queueIndex = -1
    ELSE st.queueIndex \in 0 .. Len(activeQueue(st)) - 1

\* the element #primary is fetching track t for a load cycle of the engine
Loading(t) ==
    /\ el'[primary'].src = t
    /\ el'[primary'].net = "loading"
    /\ \E i \in 1 .. Len(loads') :
           loads'[i].e = primary' /\ loads'[i].track = t /\ loads'[i].pending

\* C6: next() at the last index of a non-empty active queue sets queueIndex
\* to 0 and starts to load queue[0] when the repeat mode is all; when it is
\* none, playerState becomes ended and queueIndex and currentTrack stay
C6_NextAtLastIndex ==
    [][(call' = "next" /\ Len(activeQueue(st)) > 0
           /\ st.queueIndex = Len(activeQueue(st)) - 1) =>
        CASE st.repeatMode = "all" ->
                 /\ st'.queueIndex = 0
                 /\ Loading(activeQueue(st)[1])
          [] st.repeatMode = "none" ->
                 /\ st'.playerState = "ended"
                 /\ st'.queueIndex = st.queueIndex
                 /\ st'.currentTrack = st.currentTrack
          [] OTHER -> TRUE]_vars

C6_Witness ==
    /\ call = "next" /\ st.repeatMode = "all"
    /\ Len(st.queue) = MaxQueue /\ st.queueIndex = 0
    /\ el[primary].src = st.queue[1] /\ el[primary].net = "loading"

\* C7: prev() more than 3 s into the active resource restarts it (position and
\* progress 0, queueIndex and currentTrack as they were); otherwise it moves
\* to queueIndex - 1 and plays that track, wrapping from the first index to
\* the last when the repeat mode is all and staying at index 0 when it is not
C7_PrevRestartsOrMoves ==
    [][call' = "prev" =>
        IF el[primary].currentTime > PREV_RESTART_AFTER
        THEN /\ el'[primary'].currentTime = 0
             /\ primary' = primary
             /\ st'.progress = 0
             /\ st'.queueIndex = st.queueIndex
             /\ st'.currentTrack = st.currentTrack
        ELSE LET queue == activeQueue(st)
                 index == IF st.queueIndex - 1 >= 0 THEN st.queueIndex - 1
                          ELSE IF st.repeatMode = "all" THEN Len(queue) - 1
                          ELSE 0
             IN  /\ st'.queueIndex = index
                 /\ Len(queue) > 0 /\ index < Len(queue) =>
                        /\ st'.currentTrack = queue[index + 1]
                        /\ Loading(queue[index + 1])]_vars

C7_Witness ==
    /\ call = "prev" /\ st.progress = 0
    /\ el[primary].net = "ready" /\ el[primary].currentTime = 0 /\ ~el[primary].paused
    /\ st.queueIndex > 0

Count(q, t) == Cardinality({i \in 1 .. Len(q) : q[i] = t})
IsPermutation(p, q) == Len(p) = Len(q) /\ \A t \in Tracks : Count(p, t) = Count(q, t)

\* the state after TOGGLE_SHUFFLE drawing rnd
Toggled(s, rnd) == Reduce(s, storage, Act("TOGGLE_SHUFFLE", 0), rnd).st
ToggleDraws(s) == Draws(IF s.shuffle THEN 0 ELSE Len(s.queue))

\* C8 as stated: TOGGLE_SHUFFLE leaves queue and queueIndex as they are, and
\* two toggles in a row leave the shuffle flag and the active ordering as they
\* were before the first
C8_ToggleTwiceRestoresOrdering ==
    \A r1 \in ToggleDraws(st) : \A r2 \in ToggleDraws(Toggled(st, r1)) :
        LET s1 == Toggled(st, r1)
            s2 == Toggled(s1, r2)
        IN  /\ s1.queue = st.queue /\ s1.queueIndex = st.queueIndex
            /\ s2.queue = st.queue /\ s2.queueIndex = st.queueIndex
            /\ s2.shuffle = st.shuffle
            /\ activeQueue(s2) = activeQueue(st)

\* C8 amended: TOGGLE_SHUFFLE leaves queue and queueIndex as they are; two
\* toggles in a row leave the shuffle flag as it was; the active ordering is
\* as it was when shuffle was off before the first toggle, and a permutation
\* of the queue, drawn anew, when it was on
C8_ToggleTwiceRestoresBaseOrder ==
    \A r1 \in ToggleDraws(st) : \A r2 \in ToggleDraws(Toggled(st, r1)) :
        LET s1 == Toggled(st, r1)
            s2 == Toggled(s1, r2)
        IN  /\ s1.queue = st.queue /\ s1.queueIndex = st.queueIndex
            /\ s2.queue = st.queue /\ s2.queueIndex = st.queueIndex
            /\ s2.shuffle = st.shuffle
            /\ ~st.shuffle => activeQueue(s2) = activeQueue(st)
            /\ st.shuffle => IsPermutation(activeQueue(s2), st.queue)

C8_Witness ==
    /\ last.type = "TOGGLE_SHUFFLE" /\ ~st.shuffle /\ ops = 3
    /\ Len(st.queue) = MaxQueue /\ activeQueue(st) = QueueOf(MaxQueue)

\* C9: setVolume(v) leaves the state's volume, the stored volume and the
\* volume of the active element at v clamped into [0, 1]; the state's volume
\* is in [0, 1] always
C9_SetVolumeClampsEverywhere ==
    [][/\ st.volume \in 0 .. VOL_ONE
       /\ st'.volume \in 0 .. VOL_ONE
       /\ \A v \in VolumeInputs :
              UserStep("setVolume", <<v>>) =>
                  /\ st'.volume = clamp(v, 0, VOL_ONE)
                  /\ storage'.volume = clamp(v, 0, VOL_ONE)
                  /\ el'[primary'].volume = clamp(v, 0, VOL_ONE)]_vars

C9_Witness ==
    /\ call = "setVolume" /\ ops = 2 /\ st.volume = 1
    /\ storage.volume = 1 /\ el[primary].volume = 1
    /\ ~el[primary].paused

----------------------------------------------------------------------------
(* Further properties of the store (SpecStore).  Entry ids are handed out  *)
(* in the order of the select calls: a smaller id registered earlier.      *)

\* C11: within one dispatch the handlers registered on one selector are
\* called in the order of their registration, whatever select and
\* unsubscribe calls came before
C11_HandlersInRegistrationOrder ==
    [][IsDispatchStep =>
         \A i, j \in 1 .. Len(last'.firedSel) :
            \A e1, e2 \in Entries(subs) :
               (/\ i < j
                /\ e1.id = last'.firedSel[i].id /\ e2.id = last'.firedSel[j].id
                /\ e1.selector = e2.selector) => e1.id < e2.id]_vars

\* a dispatch called two handlers of one selector after an earlier handler
\* of that selector was unsubscribed
C11_Witness ==
    /\ Len(last.firedSel) = 2
    /\ last.firedSel[1].id = 0 /\ last.firedSel[2].id = MaxSubs
    /\ \A e \in Entries(subs) : e.selector = "volume" /\ e.id # 1

\* C12: the reducer returns a state for every action that can be dispatched,
\* SET_CURRENT_TRACK with a null track while a track is current among them,
\* and the state it was given for an unknown action type
C12_ReducerNeverThrows ==
    /\ \A track \in Tracks \cup {NoTrack} :
          ~Reduce(st, storage, Act("SET_CURRENT_TRACK", track), NoDraws).threw
    /\ \A payload \in PLAYER_STATES :
          ~Reduce(st, storage, Act("SET_PLAYER_STATE", payload), NoDraws).threw
    /\ \A payload \in ProgressInputs :
          /\ ~Reduce(st, storage, Act("SET_PROGRESS", payload), NoDraws).threw
          /\ ~Reduce(st, storage, Act("SET_DURATION", payload), NoDraws).threw
    /\ \A payload \in VolumeInputs :
          ~Reduce(st, storage, Act("SET_VOLUME", payload), NoDraws).threw
    /\ \A payload \in REPEAT_MODES :
          ~Reduce(st, storage, Act("SET_REPEAT_MODE", payload), NoDraws).threw
    /\ \A rnd \in ToggleDraws(st) :
          ~Reduce(st, storage, Act("TOGGLE_SHUFFLE", 0), rnd).threw
    /\ \A track \in Tracks :
          ~Reduce(st, storage, Act("TOGGLE_LIKED", [trackId |-> track, track |-> track]),
                  NoDraws).threw
    /\ Reduce(st, storage, Act("@@UNKNOWN", 0), NoDraws) = Kept(st, storage)

----------------------------------------------------------------------------
(* Further properties of the transport (Spec, SpecFaults) *)

\* C13: seek(s) changes nothing when the duration of the active element is
\* not finite; otherwise it leaves the position at s clamped into
\* [0, duration]; seekRelative(d) does what seek(position + d) does
C13_SeekClamps ==
    [][/\ \A seconds \in SeekInputs :
             UserStep("seek", <<seconds>>) =>
                 IF el[primary].duration = NaN
                 THEN el' = el /\ st' = st /\ storage' = storage
                 ELSE /\ el'[primary'].currentTime = clamp(seconds, 0, el[primary].duration)
                      /\ el'[primary'].currentTime \in 0 .. el'[primary'].duration
       /\ \A delta \in SeekDeltas :
             UserStep("seekRelative", <<delta>>) =>
                 IF el[primary].duration = NaN
                 THEN el' = el /\ st' = st /\ storage' = storage
                 ELSE el'[primary'].currentTime =
                          clamp(el[primary].currentTime + delta, 0, el[primary].duration)]_vars

\* a seek into the resource moved the position of a playing element
C13_Witness ==
    /\ call = "seek" /\ el[primary].currentTime = 40 /\ st.progress = 40
    /\ ~el[primary].paused /\ el[primary].duration # NaN

Sleeps(w) == Cardinality({i \in 1 .. Len(w) : w[i].k = "sleep"})
Logged(what) == \E i \in 1 .. Len(log') : log'[i] = what

\* a play() that fails, and a second play() called while the retry of a
\* failed one waits out its delay
InitRetry == \E repeatMode \in {"none", "all"} : Constructed(VOL_ONE, repeatMode, FALSE)

UserPlayInDelay ==
    /\ ops = MaxFaultOps
    /\ Sleeps(waits) > 0
    /\ \E i \in 1 .. MaxQueue :
           UserStep("play", <<QueueOf(MaxQueue)[i], QueueOf(MaxQueue), i - 1, NoDraws>>)

NextRetry ==
    \/ UserPlayOnce
    \/ UserPlayInDelay
    \/ LoadSucceeds(Granted)
    \/ LoadFails
    \/ EmptySrcError
    \/ AdvanceTime
    \/ Ended(Granted, MaxEnds)
    \/ PlaySettles
    \/ RampTick
    \/ SleepDone(Granted)
    \/ ProgressTick

SpecRetry == InitRetry /\ [][NextRetry]_vars

\* C14: the catch block of play() calls next() at most MAX_RETRIES times
\* between two loads that end with play() started, and a load failure met
\* with the retry counter at MAX_RETRIES leaves playerState = error and
\* schedules no next()
C14_RetriesBounded ==
    [][/\ autoNext' <= MAX_RETRIES
       /\ (Logged("failed") /\ retryCount = MAX_RETRIES) =>
              /\ st'.playerState = "error"
              /\ Sleeps(waits') = Sleeps(waits)
              /\ retryCount' = MAX_RETRIES]_vars

\* no play() is under way: the only pending continuations are those of resume()
NoPlayUnderWay ==
    /\ \A i \in 1 .. Len(waits) : waits[i].k = "play" /\ waits[i].tag = "resume"
    /\ \A e \in Elements : el[e].net \notin {"loading", "nosrc"}

\* C15: while playerState is "ended" with repeat off and no further track
\* in the queue, and no earlier play() is still under way, no step other than
\* a call of play() changes playerState
C15_EndedIsTerminal ==
    [][(/\ st.playerState = "ended"
        /\ st.repeatMode = "none"
        /\ st.queueIndex + 1 >= Len(activeQueue(st))
        /\ NoPlayUnderWay
        /\ call' # "play") => st'.playerState = "ended"]_vars

\* C16: while the ramp of a crossfade to a track is still pending, the store
\* does not name that track as currentTrack unless the active element
\* (#primary) is the one that plays it
C16_CurrentTrackAfterSwap ==
    \A i \in 1 .. Len(waits) :
        (waits[i].k = "ramp" /\ st.currentTrack = waits[i].track)
            => el[primary].src = st.currentTrack

\* C17: a completion signal of a load is applied once, for the newest play()
\* only: no step raises the retry counter by more than one, schedules more
\* than one automatic next() or logs more than one play event, and a play
\* event is logged only for the track that is currentTrack
C17_SupersededLoadSilent ==
    [][/\ retryCount' <= retryCount + 1
       /\ Sleeps(waits') <= Sleeps(waits) + 1
       /\ Len(played') <= Len(played) + 1
       /\ Len(played') > Len(played) => played'[Len(played')] = st'.currentTrack]_vars

\* the load cycles whose completion handlers are still pending, and the
\* crossfades whose standby play() or ramp is still pending
InFlight ==
    Cardinality({i \in 1 .. Len(loads) : loads[i].pending})
        + Cardinality({i \in 1 .. Len(waits) :
                           \/ waits[i].k = "ramp"
                           \/ waits[i].k = "play" /\ waits[i].tag = "xfade"})

\* C18: at most one load or crossfade is in flight
C18_OneOperationInFlight == InFlight <= 1

\* C19: after a play() called during the retry delay of a failed play() has
\* loaded its track (the retry counter is back at zero), the delayed next()
\* of the failed play() leaves currentTrack and queueIndex as they are
C19_StaleRetryAbandoned ==
    [][(/\ ops = MaxFaultOps + 1
        /\ retryCount = 0
        /\ st.playerState = "playing"
        /\ call' = "next"
        /\ ops' = ops)
           => /\ st'.currentTrack = st.currentTrack
              /\ st'.queueIndex = st.queueIndex]_vars

\* C20: when the active element reports an unrecoverable error, playerState
\* becomes error and, with the retry counter under MAX_RETRIES, the counter
\* goes up by one and one delayed next() is scheduled; at MAX_RETRIES the
\* counter stays and nothing is scheduled
C20_ErrorAlwaysRetries ==
    [][(el[primary].net # "failed" /\ el'[primary].net = "failed" /\ primary' = primary)
           => /\ st'.playerState = "error"
              /\ IF retryCount < MAX_RETRIES
                 THEN retryCount' = retryCount + 1 /\ Sleeps(waits') = Sleeps(waits) + 1
                 ELSE retryCount' = retryCount /\ Sleeps(waits') = Sleeps(waits)]_vars

\* a play() whose autoplay the platform may refuse, and the play button
\* pressed while the engine is paused
UserResume == st.playerState = "paused" /\ UserToggle(Granted)

NextGesture ==
    \/ UserPlayOnce
    \/ UserResume
    \/ LoadSucceeds(BOOLEAN)
    \/ LoadFails
    \/ EmptySrcError
    \/ AdvanceTime
    \/ Ended(BOOLEAN, MaxEnds)
    \/ PlaySettles
    \/ RampTick
    \/ SleepDone(BOOLEAN)
    \/ ProgressTick

SpecGesture == InitFaults /\ [][NextGesture]_vars

\* C21: a step in which a load completes, with playback started or with
\* autoplay refused (playerState paused), leaves the retry counter at zero
C21_RetryCounterReset ==
    [][(Logged("loaded") \/ Logged("blocked")) => retryCount' = 0]_vars

\* the pending #primary.play() of a resume() resolves in this step
ResumeSettles ==
    \E i \in 1 .. Len(waits) :
        /\ waits[i].k = "play" /\ waits[i].tag = "resume"
        /\ ~waits[i].aborted /\ el[waits[i].e].net = "ready"
        /\ call' = ""
        /\ waits' = Remove(waits, i)

\* C22: the step in which a load meets a refused autoplay ends with
\* playerState paused, runs no catch block of play(), sets no error, leaves
\* the retry counter and the delayed next() calls as they were; a resume()
\* made while paused whose #primary.play() resolves makes playerState playing
C22_AutoplayBlockedIsPaused ==
    [][/\ Logged("blocked") =>
              /\ st'.playerState = "paused"
              /\ ~Logged("failed")
              /\ st'.error = st.error
              /\ retryCount' = retryCount
              /\ Sleeps(waits') = Sleeps(waits)
       /\ (st.playerState = "paused" /\ ResumeSettles) => st'.playerState = "playing"]_vars

\* autoplay was refused, the play button was pressed and playback started
C22_Witness ==
    /\ ops = MaxFaultOps + 1
    /\ call = ""
    /\ st.playerState = "playing"
    /\ st.error = FALSE
    /\ retryCount = 0
    /\ waits = <<>>
    /\ Len(played) = 1

\* the resource of #primary, the only element playing, ends in this step
PrimaryEnds ==
    /\ ends' = ends + 1
    /\ IsPlaying(primary)
    /\ ~IsPlaying(Other(primary))

\* C23: when the active track ends with the repeat mode one, queueIndex and
\* currentTrack stay, progress and the position of #primary become 0, the
\* element is started again by resume() and no load or crossfade is begun;
\* when the play() of a resume() resolves, playerState is playing
C23_RepeatOneRestarts ==
    [][/\ (PrimaryEnds /\ st.repeatMode = "one") =>
              /\ st'.queueIndex = st.queueIndex
              /\ st'.currentTrack = st.currentTrack
              /\ st'.progress = 0
              /\ primary' = primary
              /\ el'[primary].currentTime = 0
              /\ el'[primary].src = el[primary].src
              /\ ~el'[primary].paused
              /\ el'[Other(primary)] = el[Other(primary)]
              /\ loads' = loads
              /\ st'.isCrossfading = st.isCrossfading
              /\ \E i \in 1 .. Len(waits') : waits'[i].tag = "resume" /\ waits'[i].e = primary
       /\ ResumeSettles => st'.playerState = "playing"]_vars

\* the only track played so far has ended under repeat one and was restarted
C23_Witness ==
    /\ st.repeatMode = "one"
    /\ ops = 1 /\ ends = 1 /\ call = ""
    /\ st.progress = 0
    /\ el[primary].currentTime = 0
    /\ ~el[primary].paused
    /\ \E i \in 1 .. Len(waits) : waits[i].tag = "resume"

\* C24: next() called with the repeat mode one and a non-empty active queue
\* leaves queueIndex and currentTrack as they are, puts #primary at position
\* 0 and starts it again through resume()
C24_NextRepeatOneRestarts ==
    [][(/\ call' = "next" /\ ops' = ops + 1
        /\ st.repeatMode = "one"
        /\ Len(activeQueue(st)) > 0)
           => /\ st'.queueIndex = st.queueIndex
              /\ st'.currentTrack = st.currentTrack
              /\ primary' = primary
              /\ el'[primary].currentTime = 0
              /\ ~el'[primary].paused
              /\ \E i \in 1 .. Len(waits') : waits'[i].tag = "resume" /\ waits'[i].e = primary]_vars

\* C24 amended: next() called with the repeat mode one and a non-empty active
\* queue leaves queueIndex and currentTrack as they are; when #primary has a
\* resource assigned it puts #primary at position 0 and starts it again
\* through resume(), and otherwise it changes nothing
C24_NextRepeatOneRestartsLoaded ==
    [][(/\ call' = "next" /\ ops' = ops + 1
        /\ st.repeatMode = "one"
        /\ Len(activeQueue(st)) > 0)
           => /\ st'.queueIndex = st.queueIndex
              /\ st'.currentTrack = st.currentTrack
              /\ primary' = primary
              /\ IF el[primary].src # NoTrack
                 THEN /\ el'[primary].currentTime = 0
                      /\ ~el'[primary].paused
                      /\ \E i \in 1 .. Len(waits') :
                             waits'[i].tag = "resume" /\ waits'[i].e = primary
                 ELSE st' = st /\ el' = el /\ waits' = waits /\ loads' = loads]_vars

\* next() was called under repeat one on a loaded track, which starts again
C24_Witness ==
    /\ call = "next"
    /\ st.repeatMode = "one"
    /\ st.currentTrack # NoTrack
    /\ el[primary].src = st.currentTrack
    /\ el[primary].currentTime = 0
    /\ ~el[primary].paused
    /\ \E i \in 1 .. Len(waits) : waits[i].tag = "resume" /\ waits[i].e = primary

\* C25: while shuffle is on, shuffledQueue holds the tracks of queue, each as
\* often as queue does; while shuffle is off, shuffledQueue is empty
C25_ShuffledIsPermutation ==
    IF st.shuffle THEN IsPermutation(st.shuffledQueue, st.queue)
    ELSE st.shuffledQueue = <<>>

\* shuffle is on over a queue of three tracks, which it put in another order
C25_Witness ==
    /\ st.shuffle
    /\ Len(st.queue) > 2
    /\ st.shuffledQueue # st.queue

\* C26: there is at most one live progress interval, and once pause() has
\* run the interval dispatches no progress until play() or resume() starts
\* playback again
C26_OneTimerSilentAfterPause ==
    [][timer' <= 1 /\ ~(halted /\ Logged("tick"))]_vars

\* C27: a step that makes another track currentTrack leaves the stored
\* progress at 0, and the stored progress is never negative
C27_ProgressResetOnTrackChange ==
    [][/\ (st'.currentTrack # st.currentTrack /\ st'.currentTrack # NoTrack)
              => st'.progress = 0
       /\ st'.progress >= 0]_vars

\* C28: a SET_PROGRESS dispatch returns the state it was given exactly when
\* the payload is less than 0.1 s from the stored progress, and stores the
\* payload otherwise
C28_ProgressThreshold ==
    [][last'.type = "SET_PROGRESS" =>
          IF Abs(last'.action.payload - st.progress) < PROGRESS_EPS
          THEN last'.same /\ st' = st
          ELSE ~last'.same /\ st'.progress = last'.action.payload]_vars

\* SET_PROGRESS 0 was dispatched over a stored progress of 0.05 s, which stays
C28_Witness ==
    /\ last.type = "SET_PROGRESS"
    /\ last.action.payload = 0
    /\ last.same
    /\ st.progress = 1

\* C29: preloadNext makes a new Audio only from a progress tick, at most one
\* per tick and only for a target other than the one already primed; a tick
\* at or above the preload fraction with a next track in the active queue
\* leaves that track primed, making an Audio only if it was not primed yet;
\* any other tick leaves the primed target; a tick changes nothing of the
\* store but progress and does not swap the elements
C29_PreloadIdempotent ==
    [][/\ Logged("preload") =>
              /\ Logged("tick")
              /\ Cardinality({i \in 1 .. Len(log') : log'[i] = "preload"}) = 1
              /\ preloaded' # preloaded
              /\ preloaded' # NoTrack
       /\ (Logged("tick") /\ ends' = ends) =>
              LET queue == activeQueue(st)
                  nextIndex == st.queueIndex + 1
                  current == el'[primary].currentTime
                  duration == el[primary].duration
              IN  /\ IF /\ duration # NaN /\ duration > 0
                        /\ current * 100 >= PRELOAD_NEXT_AT_PERCENT * duration
                        /\ nextIndex < Len(queue)
                     THEN /\ preloaded' = queue[nextIndex + 1]
                          /\ Logged("preload") <=> preloaded # queue[nextIndex + 1]
                     ELSE preloaded' = preloaded /\ ~Logged("preload")
                  /\ primary' = primary
                  /\ st' = [st EXCEPT !.progress = st'.progress]]_vars

\* a tick above the preload fraction found the next track primed already
C29_Witness ==
    /\ \E i \in 1 .. Len(log) : log[i] = "tick"
    /\ \A i \in 1 .. Len(log) : log[i] # "preload"
    /\ st.queueIndex + 1 < Len(activeQueue(st))
    /\ preloaded = activeQueue(st)[st.queueIndex + 2]
    /\ el[primary].duration # NaN
    /\ el[primary].currentTime * 100 >= PRELOAD_NEXT_AT_PERCENT * el[primary].duration
    /\ ends = 0

\* the state after TOGGLE_LIKED for track t
Liked(s, t) == Reduce(s, storage, Act("TOGGLE_LIKED", [trackId |-> t, track |-> t]), NoDraws).st

\* C30: likedTrackIds changes only in a TOGGLE_LIKED dispatch, which adds the
\* id when it is absent and removes it when it is present, and from every
\* state two TOGGLE_LIKED dispatches for the same track give back the
\* likedTrackIds and the library of that state
C30_ToggleLikedTwiceRestores ==
    [][/\ st'.likedTrackIds # st.likedTrackIds => last'.type = "TOGGLE_LIKED"
       /\ last'.type = "TOGGLE_LIKED" =>
              LET t == last'.action.payload.trackId
              IN  (t \in st'.likedTrackIds) <=> (t \notin st.likedTrackIds)
       /\ \A t \in Tracks :
              /\ Liked(Liked(st, t), t).likedTrackIds = st.likedTrackIds
              /\ Liked(Liked(st, t), t).library = st.library]_vars

----------------------------------------------------------------------------
(* Properties of the two elements and their roles (Spec) *)

\* C31: the engine's handlers for ended, error, waiting, playing and
\* durationchange are on the active element (#primary) only and there at most
\* once, and an event of the standby element alone leaves the store's state
\* as it was
C31_HandlersOnActiveOnly ==
    [][/\ attached'[Other(primary')] = 0
       /\ attached'[primary'] <= 1
       /\ (/\ primary' = primary
           /\ el'[primary] = el[primary]
           /\ el[Other(primary)].net = "nosrc"
           /\ el'[Other(primary)].net = "empty") => st' = st]_vars

\* a crossfade is in flight: its standby play() or its ramp is pending, or
\* the store says so
Crossfading ==
    \/ st.isCrossfading
    \/ \E i \in 1 .. Len(waits) :
           waits[i].k = "ramp" \/ (waits[i].k = "play" /\ waits[i].tag = "xfade")

\* C32: while playerState is paused and no crossfade is in flight, neither
\* element plays and no progress interval is live
C32_PausedIsSilent ==
    (st.playerState = "paused" /\ ~Crossfading) =>
        /\ \A e \in Elements : el[e].paused
        /\ timer = 0

\* C33: while no crossfade is in flight, an active element that has a
\* resource is at the store's volume and a standby element that has a
\* resource is at volume 0
C33_VolumesOutsideCrossfade ==
    ~Crossfading =>
        /\ el[primary].src # NoTrack => el[primary].volume = st.volume
        /\ el[Other(primary)].src # NoTrack => el[Other(primary)].volume = 0

----------------------------------------------------------------------------
(* Failures during a crossfade (SpecFaults) *)

\* C34: once nothing is pending after a natural end, an active element whose
\* resource never loaded has had the retry policy of play() applied: either
\* the retries are used up and playerState is error, or a delayed next() has
\* run off the end of the queue; playerState is not playing, and no such
\* failure is left with the retry counter untouched
C34_CrossfadeFailureSurfaces ==
    (/\ ends > 0 /\ ~Crossfading /\ Settled
     /\ el[primary].src # NoTrack /\ el[primary].duration = NaN) =>
        \/ st.playerState = "error" /\ retryCount = MAX_RETRIES
        \/ st.playerState = "ended" /\ retryCount > 0

----------------------------------------------------------------------------
(* The queue and the playing track (Spec) *)

\* C35: when nothing is pending and the active element plays, currentTrack
\* is the track at queueIndex of the active ordering of a non-empty queue
C35_CurrentTrackAtQueueIndex ==
    (/\ Settled /\ ~Crossfading
     /\ st.playerState = "playing"
     /\ Len(activeQueue(st)) > 0) =>
        /\ st.queueIndex + 1 \in DOMAIN activeQueue(st)
        /\ st.currentTrack = activeQueue(st)[st.queueIndex + 1]

\* the queue edited while the shuffle flag kept from an earlier run may be on
InitQueue == \E shuffle \in BOOLEAN : Constructed(VOL_ONE, "none", shuffle)

NextQueue ==
    \/ UserPlay
    \/ UserAddToQueueNext
    \/ UserToggleShuffle
    \/ UserNext(Granted)
    \/ LoadSucceeds(Granted)
    \/ PlaySettles

SpecQueue == InitQueue /\ [][NextQueue]_vars

\* C36: addToQueueNext(track) leaves queueIndex and the track at queueIndex
\* of the active ordering as they were and puts the added track at
\* queueIndex + 1 of the active ordering, the place next() plays from
C36_AddedTrackIsNext ==
    [][call' = "addToQueueNext" =>
          LET index == st.queueIndex
              before == activeQueue(st)
              after == activeQueue(st')
          IN  /\ st'.queueIndex = index
              /\ index + 2 \in DOMAIN after
              /\ after[index + 2] = NTracks
              /\ index + 1 \in DOMAIN before =>
                     /\ index + 1 \in DOMAIN after
                     /\ after[index + 1] = before[index + 1]]_vars

\* C37: the step that swaps the roles of the two elements at the end of a
\* crossfade leaves the stored duration at the duration of the new active
\* element's resource
C37_DurationAfterSwap ==
    [][primary' # primary => st'.duration = el'[primary'].duration]_vars

----------------------------------------------------------------------------
(* The store with a handler that dispatches (SpecReentrant) *)

\* select(selectors.progress, handler) with a handler that calls dispatch
StoreSelectDispatching ==
    /\ nextId < MaxSubs
    /\ nextId' = nextId + 1
    /\ StoreOther(Select(World, nextId + 1, "progress", "dispatching", FALSE))

NextReentrant ==
    \/ StoreSelect
    \/ StoreSelectDispatching
    \/ StoreUnsubscribe
    \/ DispatchSetProgress
    \/ DispatchSetVolume

SpecReentrant == InitStore /\ [][NextReentrant]_vars

\* C38: after a dispatch has returned, handlers that dispatch included, the
\* value every selector handler was last called with, and the value the store
\* keeps as its last value, are shallow-equal to its selector applied to the
\* state
C38_ObservedValuesCurrent ==
    \A e \in Entries(subs) :
        /\ ShallowEqual(e.lastValue, Sel(e.selector, st))
        /\ ShallowEqual(e.seen, Sel(e.selector, st))

----------------------------------------------------------------------------
(* Unsubscribing (SpecStore) *)

\* the step is a call of an unsubscribe function
IsUnsubscribeStep == ops' = ops + 1 /\ last'.type = "" /\ nextId' = nextId

\* the entries of S without the entry id, in their order
Without(S, id) ==
    [m \in 1 .. Len(S) |-> [S[m] EXCEPT !.entries = SelectSeq(@, LAMBDA e : e.id # id)]]

\* C39: a call of an unsubscribe function takes its entry, and nothing else,
\* out of the store; a dispatch calls only handlers that are registered then,
\* and every registered handler whose projection has changed; unsubscribing
\* an entry a second time changes nothing
C39_UnsubscribedNeverCalled ==
    [][/\ IsUnsubscribeStep =>
              /\ \E e \in Entries(subs) : e.id # 0 /\ subs' = Without(subs, e.id)
              /\ subs' # subs
              /\ st' = st /\ listeners' = listeners
       /\ IsDispatchStep =>
              /\ \A i \in 1 .. Len(last'.firedSel) :
                     \E e \in Entries(subs) : e.id = last'.firedSel[i].id
              /\ \A e \in Entries(subs) :
                     ~ShallowEqual(Sel(e.selector, st'), e.lastValue)
                         => Calls(last'.firedSel, e.id) # {}
       /\ \A id \in 1 .. MaxSubs :
              /\ Unsubscribe(Unsubscribe(World, id), id) = Unsubscribe(World, id)
              /\ (\A e \in Entries(subs) : e.id # id) => Unsubscribe(World, id).subs = subs]_vars

\* the second of two handlers on the volume selector was unsubscribed, and a
\* later SET_VOLUME called the first and not the second
C39_Witness ==
    /\ last.type = "SET_VOLUME" /\ ops = MaxStoreOps /\ nextId = MaxSubs
    /\ \E e \in Entries(subs) : e.id = 1 /\ e.selector = "volume"
    /\ Calls(last.firedSel, 1) # {}
    /\ \A e \in Entries(subs) : e.id # MaxSubs
    /\ \A i \in 1 .. Len(listeners) : listeners[i].id # MaxSubs
    /\ Calls(last.firedSel, MaxSubs) = {}

----------------------------------------------------------------------------
(* Persistence (SpecStore) *)

\* C40: after a dispatch of SET_VOLUME, SET_REPEAT_MODE, TOGGLE_SHUFFLE or
\* TOGGLE_LIKED the volume, the repeat mode, the shuffle flag and the liked
\* ids that localStorage holds are those of the state, and a store made anew
\* from localStorage starts with them
C40_PersistedPreferencesTrackState ==
    [][last'.type \in {"SET_VOLUME", "SET_REPEAT_MODE", "TOGGLE_SHUFFLE", "TOGGLE_LIKED"} =>
          /\ storage'.volume = st'.volume
          /\ storage'.repeat = st'.repeatMode
          /\ storage'.shuffle = st'.shuffle
          /\ Len(storage'.liked) = Cardinality(st'.likedTrackIds)
          /\ Hydrated(storage').volume = st'.volume
          /\ Hydrated(storage').repeatMode = st'.repeatMode
          /\ Hydrated(storage').shuffle = st'.shuffle
          /\ Hydrated(storage').likedTrackIds = st'.likedTrackIds]_vars

\* a volume, a repeat mode and two liked tracks were set and persisted
C40_Witness ==
    /\ last.type = "TOGGLE_LIKED"
    /\ st.likedTrackIds = {1, 2} /\ storage.liked = <<1, 2>>
    /\ st.volume = 1 /\ storage.volume = 1
    /\ st.repeatMode = "all" /\ storage.repeat = "all"

====
